---- MODULE Spec2Model ----
(***************************************************************************)
(* Portal graph, area flood and area-portal emission of qbsp (portals.cc). *)
(*                                                                         *)
(* SpecFlood : FloodAreas (FindAreas, FloodAreas_r, SetAreaPortalAreas_r)  *)
(*             followed by EmitAreaPortals, on a portalized leaf graph.    *)
(* SpecPortals : MakeTreePortals on a BSP tree, one task per call of       *)
(*             MakeTreePortals_r, followed by the tasks of                 *)
(*             CalcTreeBounds_r.                                           *)
(* SpecCall  : MakeTreePortals_r called on the head node with a list of    *)
(*             boundary portals that may be mislinked.                     *)
(* SpecSides : FindPortalSide on one portal between two leafs.             *)
(* SpecVisible : MarkVisibleSides, called twice on a portalized tree.      *)
(* SpecRedo  : MakeTreePortals called a second time on the same tree.      *)
(* SpecStyles : LightStyleForTargetname of light (light/entities.cc).      *)
(* SpecDebug : the debug options and reset of light_settings.              *)
(* SpecFileSpace : GetFileSpace of light called from several threads.      *)
(* SpecDict  : set, remove and rename on an entdict_t.                     *)
(* SpecParse : entdict_t::parse over the pairs of an entity.               *)
(***************************************************************************)
EXTENDS Integers, Sequences, FiniteSets, TLC

(***************************************************************************)
(* Bounds of the model.                                                    *)
(***************************************************************************)
MaxLeafs == 5
MaxEntities == 2

NULL == -1
\* An empty std::optional<winding_t>, and an empty std::unique_ptr<buildportal_t>.
NoWinding == <<>>
NoPortal == <<>>
\* A default-constructed qbsp_plane_t.
NoPlane == [axis |-> 0, dist |-> 0, sign |-> 1]

(***************************************************************************)
(* C arrays of two elements (nodes[2], next[2], portalareas[2], children)  *)
(* are pairs; Side(t, s) is t[s] of the source for s in {0, 1}.            *)
(***************************************************************************)
Side(t, s) == t[s + 1]
Other(s) == 1 - s
SetSide(t, s, v) == [t EXCEPT ![s + 1] = v]

VARIABLES
    nodes,          \* node id -> node_t fields fixed by the BSP build
    headnode,       \* tree->headnode
    portals,        \* tree->portals: sequence of portal_t
    nodeportals,    \* node id -> node->portals (head of the intrusive list, 0 = NULL)
    area,           \* node id -> node->area
    c_areas,        \* map.c_areas
    portalareas,    \* entity -> mapentity_t::portalareas
    areaportalnum,  \* entity -> mapentity_t::areaportalnum
    pc,             \* position of the pass
    leafs,          \* FindAreas: the vector returned by FindOccupiedClusters
    li,             \* FindAreas: position of the range-for in leafs
    stack,          \* call stack of FloodAreas_r / SetAreaPortalAreas_r
    log,            \* warnings printed by logging::print, in order
    starts,         \* FindAreas: area ids handed to FloodAreas_r, in order
    dareas,         \* map.bsp.dareas
    dareaportals,   \* map.bsp.dareaportals
    fatal,          \* message of the FError that ended the run, "" if none
    tree_bounds,    \* tree->bounds
    mtp,            \* node id -> the MakeTreePortals_r call on that node
    c_tinyportals,  \* stats.c_tinyportals
    clock,          \* the count of the percent_clock
    splitcalls,     \* the SplitNodePortals calls of the last step
    node_bounds,    \* node id -> node_t::bounds
    ctb,            \* node id -> position of the CalcTreeBounds_r call on the node
    visible,        \* the faces (mapface_t) whose visible flag is set
    visible_after,  \* visible at the return of each call of MarkVisibleSides
    runs,           \* tree->portals at the return of each call of MakeTreePortals
    lightstyleForTargetname, \* light: the pairs <<targetname, style>> assigned
    compilerstyle_start,     \* light: cfg.compilerstyle_start
    returned,       \* light: <<argument, result>> of each call that returned
    debugmode,      \* light_settings::debugmode
    keyvalues,      \* entdict_t::keyvalues: sequence of <<key, value>>
    dictcalls,      \* the calls made on the entdict_t, in order
    token,          \* entdict_t::parse: <<key token, value token>> of the pair
    keystr,         \* entdict_t::parse: keystr
    file_p,         \* light: offset of the free space of filebase
    lit_file_p,     \* light: offset of the free space of lit_filebase
    lux_file_p,     \* light: offset of the free space of lux_filebase
    file_ends,      \* light: <<file_end, lit_file_end, lux_file_end>>
    light_mutex,    \* light: the thread that holds light_mutex, 0 if none
    gfs             \* light: thread -> its call of GetFileSpace

buildvars == <<tree_bounds, mtp, c_tinyportals, clock, splitcalls, node_bounds, ctb>>

visvars == <<visible, visible_after>>

\* The state of the passes and tools that run after the portals are built.
lightvars == <<lightstyleForTargetname, compilerstyle_start, returned, debugmode>>

dictvars == <<keyvalues, dictcalls, token, keystr>>

filevars == <<file_p, lit_file_p, lux_file_p, file_ends, light_mutex, gfs>>

toolvars == <<visvars, runs, lightvars, dictvars, filevars>>

\* No face is flagged and MarkVisibleSides was not called.
VisibleIdle == visible = {} /\ visible_after = <<>>

\* light has assigned no style and returned from no call.
LightIdle ==
    /\ lightstyleForTargetname = <<>>
    /\ compilerstyle_start = 32
    /\ returned = <<>>
    /\ debugmode = "none"

\* An empty entdict_t.
DictIdle == keyvalues = <<>> /\ dictcalls = <<>> /\ token = <<>> /\ keystr = <<>>

\* No buffer of light is allocated (lines 1516-1526) and no thread runs.
FileIdle ==
    /\ file_p = 0
    /\ lit_file_p = 0
    /\ lux_file_p = 0
    /\ file_ends = <<0, 0, 0>>
    /\ light_mutex = 0
    /\ gfs = <<>>

ToolsIdle == VisibleIdle /\ runs = <<>> /\ LightIdle /\ DictIdle /\ FileIdle

vars == <<nodes, headnode, portals, nodeportals, area, c_areas, portalareas,
          areaportalnum, pc, leafs, li, stack, log, starts, dareas,
          dareaportals, fatal, tree_bounds, mtp, c_tinyportals, clock, splitcalls,
          node_bounds, ctb,
          toolvars>>

(***************************************************************************)
(* Contents flags (contentflags_t::native as a set of bits).               *)
(***************************************************************************)
Q2_CONTENTS_SOLID == "SOLID"
Q2_CONTENTS_AREAPORTAL == "AREAPORTAL"
Q2_CONTENTS_TRANSLUCENT == "TRANSLUCENT"

is_any_solid(contents) == Q2_CONTENTS_SOLID \in contents

RECURSIVE ClusterContents(_, _)
ClusterContents(N, node) ==
    IF N[node].is_leaf
    THEN N[node].contents
    ELSE ClusterContents(N, Side(N[node].children, 0))
             \cup ClusterContents(N, Side(N[node].children, 1))

(***************************************************************************)
(* Intrusive portal lists.                                                 *)
(***************************************************************************)
\* The heap of finalized portals: tree->portals and every node->portals.
AddPortalToFrontOnly(st, p, front, back) ==
    [st EXCEPT !.portals[p].nodes = <<front, back>>,
               !.portals[p].next = SetSide(@, 0, st.heads[front]),
               !.heads[front] = p]

AddPortalToNodes(st, p, front, back) ==
    IF Side(st.portals[p].nodes, 0) # NULL \/ Side(st.portals[p].nodes, 1) # NULL
    THEN [st EXCEPT !.fatal = "portal already included"]
    ELSE LET a == [st EXCEPT
                     !.portals[p].nodes = SetSide(@, 0, front),
                     !.portals[p].next = SetSide(@, 0, st.heads[front]),
                     !.heads[front] = p]
         IN  [a EXCEPT
                     !.portals[p].nodes = SetSide(@, 1, back),
                     !.portals[p].next = SetSide(@, 1, a.heads[back]),
                     !.heads[back] = p]

create_portal(st) ==
    [st EXCEPT !.portals = Append(@, [nodes |-> <<NULL, NULL>>, next |-> <<0, 0>>,
                                      plane |-> NoPlane, onnode |-> NULL,
                                      winding |-> NoWinding])]

RECURSIVE MakePortalsFromBuildportals(_, _)
MakePortalsFromBuildportals(st, buildportals) ==
    IF buildportals = <<>> \/ st.fatal # ""
    THEN st
    ELSE LET bp == Head(buildportals)
             s1 == create_portal(st)
             new_portal == Len(s1.portals)
             s2 == [s1 EXCEPT !.portals[new_portal].plane = bp.plane,
                              !.portals[new_portal].onnode = bp.onnode,
                              !.portals[new_portal].winding = bp.winding]
         IN  MakePortalsFromBuildportals(
                 AddPortalToNodes(s2, new_portal, Side(bp.nodes, 0), Side(bp.nodes, 1)),
                 Tail(buildportals))

\* Which side of portal p the node is on, as computed by the list walks.
PortalSide(p, node) == IF Side(portals[p].nodes, 1) = node THEN 1 ELSE 0

Portal_EntityFloodSolid(p, s) ==
    IF ~nodes[Side(portals[p].nodes, 0)].is_leaf \/ ~nodes[Side(portals[p].nodes, 1)].is_leaf
    THEN "FError"
    ELSE "true"

Portal_EntityFlood(p, s) ==
    IF ~nodes[Side(portals[p].nodes, 0)].is_leaf \/ ~nodes[Side(portals[p].nodes, 1)].is_leaf
    THEN "FError"
    ELSE IF is_any_solid(nodes[Side(portals[p].nodes, 0)].contents)
            \/ is_any_solid(nodes[Side(portals[p].nodes, 1)].contents)
         THEN "false"
         ELSE "true"

(***************************************************************************)
(* Windings and planes.  Every plane of the model is axis-aligned, so a    *)
(* winding is a rectangle: the box [lo, hi] that is flat along the axis of *)
(* its plane.  Lengths are in tenths of a map unit; the clipping epsilons  *)
(* (0.001 and 0.1) are below one tenth, so a point is on a plane exactly   *)
(* when its coordinate equals the plane's.                                 *)
(***************************************************************************)
\* WindingIsTiny's default size, 0.2 units.
TinySize == 2
\* Padding of the headnode box, 24 units.
SIDESPACE == 240
\* Half the side of the square BaseWindingForPlane returns.
BaseWindingExtent == 100000

\* A plane: normal = sign * unit vector of axis, normal . x = dist.
Negate(plane) == [axis |-> plane.axis, dist |-> 0 - plane.dist, sign |-> 0 - plane.sign]
Coord(v, axis) == v[axis + 1]
PlaneCoord(plane) == plane.dist * plane.sign

\* The vector with c on the axis and v on the two other axes.
OnAxis(axis, c, v) ==
    <<IF axis = 0 THEN c ELSE v, IF axis = 1 THEN c ELSE v, IF axis = 2 THEN c ELSE v>>

BaseWindingForPlane(plane) ==
    [lo |-> OnAxis(plane.axis, PlaneCoord(plane), 0 - BaseWindingExtent),
     hi |-> OnAxis(plane.axis, PlaneCoord(plane), BaseWindingExtent)]

\* winding_t::clip: <<front fragment, back fragment>>, NULL for none.
clip(w, plane, keepon) ==
    LET c == PlaneCoord(plane)
        lo == Coord(w.lo, plane.axis)
        hi == Coord(w.hi, plane.axis)
        anyfront == IF plane.sign = 1 THEN hi > c ELSE lo < c
        anyback == IF plane.sign = 1 THEN lo < c ELSE hi > c
        upper == [w EXCEPT !.lo[plane.axis + 1] = c]
        lower == [w EXCEPT !.hi[plane.axis + 1] = c]
    IN  IF keepon /\ ~anyfront /\ ~anyback THEN <<w, NoWinding>>
        ELSE IF ~anyfront THEN <<NoWinding, w>>
        ELSE IF ~anyback THEN <<w, NoWinding>>
        ELSE IF plane.sign = 1 THEN <<upper, lower>> ELSE <<lower, upper>>

clip_front(w, plane, keepon) == clip(w, plane, keepon)[1]
clip_back(w, plane, keepon) == clip(w, plane, keepon)[2]

\* The number of edges of the rectangle that are longer than size.
LongEdges(w, size) ==
    2 * Cardinality({k \in 1..3 : w.hi[k] - w.lo[k] > size})

WindingIsTiny(w) == LongEdges(w, TinySize) < 3

(***************************************************************************)
(* Build-portals.  A buildportal_t object is named by its id: <<0, n>> the *)
(* n-th headnode portal, <<1, node>> the portal made for node, and id \o   *)
(* <<node>> the portal allocated when SplitNodePortals(node) splits id.    *)
(***************************************************************************)
set_nodes(p, front, back) == [p EXCEPT !.nodes = <<front, back>>]

\* The six planes of MakeHeadnodePortals, n = j * 3 + i.
HeadnodePlane(bounds, n) ==
    LET i == n % 3
        j == n \div 3
    IN  IF j = 1
        THEN [axis |-> i, dist |-> 0 - Coord(bounds.maxs, i), sign |-> 0 - 1]
        ELSE [axis |-> i, dist |-> Coord(bounds.mins, i), sign |-> 1]

\* qbsp_plane_t::set_plane(pl, true): the plane made positive.
PositivePlane(pl) == IF pl.sign = 1 THEN pl ELSE Negate(pl)

\* Lines 173-182: the winding of portal i clipped by the planes j >= from.
RECURSIVE ClipByBoxPlanes(_, _, _, _)
ClipByBoxPlanes(w, bounds, i, from) ==
    IF from > 5 \/ w = NoWinding THEN w
    ELSE IF from = i THEN ClipByBoxPlanes(w, bounds, i, from + 1)
    ELSE ClipByBoxPlanes(clip_front(w, HeadnodePlane(bounds, from), TRUE),
                         bounds, i, from + 1)

aabb_grow(bounds, size) ==
    [mins |-> <<bounds.mins[1] - size, bounds.mins[2] - size, bounds.mins[3] - size>>,
     maxs |-> <<bounds.maxs[1] + size, bounds.maxs[2] + size, bounds.maxs[3] + size>>]

\* Lines 145-182 for portal n: side is TRUE when set_plane flipped the plane.
HeadnodePortal(bounds, head, n, pl) ==
    [id |-> <<0, n>>,
     plane |-> PositivePlane(pl),
     onnode |-> NULL,
     winding |-> ClipByBoxPlanes(BaseWindingForPlane(pl), bounds, n, 0),
     nodes |-> IF pl.sign # 1 THEN <<0, head>> ELSE <<head, 0>>]

\* The result list of MakeHeadnodePortals for the grown bounds; a winding
\* that is clipped away is left empty, which makes the caller stop with the
\* FError.
HeadnodePortals(bounds, head) ==
    <<HeadnodePortal(bounds, head, 0, HeadnodePlane(bounds, 0)),
      HeadnodePortal(bounds, head, 1, HeadnodePlane(bounds, 1)),
      HeadnodePortal(bounds, head, 2, HeadnodePlane(bounds, 2)),
      HeadnodePortal(bounds, head, 3, HeadnodePlane(bounds, 3)),
      HeadnodePortal(bounds, head, 4, HeadnodePlane(bounds, 4)),
      HeadnodePortal(bounds, head, 5, HeadnodePlane(bounds, 5))>>

MakeHeadnodePortalsUnclipped(treebounds, head) ==
    [n \in 1..6 |->
        [HeadnodePortals(aabb_grow(treebounds, SIDESPACE), head)[n] EXCEPT
            !.winding = BaseWindingForPlane(
                            HeadnodePlane(aabb_grow(treebounds, SIDESPACE), n - 1))]]

MakeHeadnodePortals(treebounds, head) ==
    HeadnodePortals(aabb_grow(treebounds, SIDESPACE), head)

\* BaseWindingForNode: the node's plane winding clipped by all the parents.
RECURSIVE ClipByParents(_, _, _)
ClipByParents(N, w, node) ==
    LET np == N[node].parent IN
    IF np = NULL \/ w = NoWinding THEN w
    ELSE ClipByParents(N,
             IF Side(N[np].children, 0) = node
             THEN clip_front(w, N[np].plane, FALSE)
             ELSE clip_back(w, N[np].plane, FALSE),
             np)

BaseWindingForNode(N, node) == ClipByParents(N, BaseWindingForPlane(N[node].plane), node)

\* MakeNodePortal, lines 239-255: w clipped by the portals of the list:
\* [w, mislinked], w empty when clipped away.
RECURSIVE ClipByBoundary(_, _, _)
ClipByBoundary(w, node, boundary_portals) ==
    IF boundary_portals = <<>> \/ w = NoWinding THEN [w |-> w, mislinked |-> FALSE]
    ELSE LET p == Head(boundary_portals) IN
         IF Side(p.nodes, 0) = node
         THEN ClipByBoundary(clip_front(w, p.plane, FALSE), node, Tail(boundary_portals))
         ELSE IF Side(p.nodes, 1) = node
         THEN ClipByBoundary(clip_front(w, Negate(p.plane), FALSE), node,
                             Tail(boundary_portals))
         ELSE [w |-> w, mislinked |-> TRUE]

\* Lines 257-272, for the clipped winding r: [portal, tiny, fatal], the new
\* portal if any, the increase of stats.c_tinyportals, and the message of
\* the Error.
NodePortalOf(N, node, r) ==
    IF r.mislinked
    THEN [portal |-> NoPortal, tiny |-> 0, fatal |-> "CutNodePortals_r: mislinked portal"]
    ELSE IF r.w = NoWinding
    THEN [portal |-> NoPortal, tiny |-> 0, fatal |-> ""]
    ELSE IF WindingIsTiny(r.w)
    THEN [portal |-> NoPortal, tiny |-> 1, fatal |-> ""]
    ELSE [portal |-> [id |-> <<1, node>>, plane |-> N[node].plane, onnode |-> node,
                      winding |-> r.w, nodes |-> N[node].children],
          tiny |-> 0, fatal |-> ""]

MakeNodePortal(N, node, boundary_portals) ==
    NodePortalOf(N, node,
                 ClipByBoundary(BaseWindingForNode(N, node), node, boundary_portals))

\* The object allocated by line 343 for the back fragment of p.
SharedPortalId(p, node) == p.id
NewPortalId(p, node) == p.id \o <<node>>

\* Lines 309-317: a fragment, emptied when it is tiny, and its count.
IsTinyFragment(w) == w # NoWinding /\ WindingIsTiny(w)
KeepTinyFragment(w) == w
DropTiny(w) == IF IsTinyFragment(w) THEN NoWinding ELSE w
TinyCount(w) == IF IsTinyFragment(w) THEN 1 ELSE 0

\* Which side of p node is on, lines 293-297.
SideOfNode(p, node) == IF Side(p.nodes, 0) = node THEN 0 ELSE 1

\* q relinked to child on side 0, whatever side p had node on.
ToChildFront(q, p, node, child) == set_nodes(q, child, Side(p.nodes, 1))

\* q relinked to child on the side where p had node, lines 324-327.
ToChild(q, p, node, child) ==
    IF SideOfNode(p, node) = 0
    THEN set_nodes(q, child, Side(p.nodes, 1))
    ELSE set_nodes(q, Side(p.nodes, 0), child)

\* Lines 319-360, for the two fragments of p: [front, back, tiny, fatal],
\* front and back lists of at most one portal.
SplitFragments(N, node, p, frontwinding, backwinding, tiny) ==
    IF frontwinding = NoWinding /\ backwinding = NoWinding
    THEN [front |-> <<>>, back |-> <<>>, tiny |-> tiny, fatal |-> ""]
    ELSE IF frontwinding = NoWinding
    THEN [front |-> <<>>, back |-> <<ToChild(p, p, node, Side(N[node].children, 1))>>,
          tiny |-> tiny, fatal |-> ""]
    ELSE IF backwinding = NoWinding
    THEN [front |-> <<ToChild(p, p, node, Side(N[node].children, 0))>>, back |-> <<>>,
          tiny |-> tiny, fatal |-> ""]
    ELSE [front |-> <<ToChild([p EXCEPT !.winding = frontwinding], p, node,
                              Side(N[node].children, 0))>>,
          back |-> <<ToChild([id |-> NewPortalId(p, node), plane |-> p.plane,
                              onnode |-> p.onnode, winding |-> backwinding,
                              nodes |-> <<NULL, NULL>>],
                             p, node, Side(N[node].children, 1))>>,
          tiny |-> tiny, fatal |-> ""]

\* Lines 307-317.
SplitWinding(N, node, p, cut) ==
    SplitFragments(N, node, p, DropTiny(cut[1]), DropTiny(cut[2]),
                   TinyCount(cut[1]) + TinyCount(cut[2]))

SplitOnePortalUnchecked(N, node, p) ==
    SplitWinding(N, node, p, clip(p.winding, N[node].plane, TRUE))

\* SplitNodePortals, lines 292-361, for one portal p of the list.
SplitOnePortal(N, node, p) ==
    IF Side(p.nodes, 0) # node /\ Side(p.nodes, 1) # node
    THEN [front |-> <<>>, back |-> <<>>, tiny |-> 0,
          fatal |-> "CutNodePortals_r: mislinked portal"]
    ELSE SplitWinding(N, node, p, clip(p.winding, N[node].plane, TRUE))

PushSplitToBoth(result, one) ==
    [front |-> result.front \o one.front \o one.back,
     back |-> result.back \o one.front \o one.back,
     tiny |-> result.tiny + one.tiny, fatal |-> one.fatal]

\* result after one more portal of the loop.
PushSplit(result, one) ==
    [front |-> result.front \o one.front, back |-> result.back \o one.back,
     tiny |-> result.tiny + one.tiny, fatal |-> one.fatal]

\* The loop of line 291 over the rest of boundary_portals; the FError of a
\* mislinked portal ends it.
RECURSIVE SplitLoop(_, _, _, _)
SplitLoop(N, node, rest, result) ==
    IF rest = <<>> \/ result.fatal # ""
    THEN result
    ELSE SplitLoop(N, node, Tail(rest),
                   PushSplit(result, SplitOnePortal(N, node, Head(rest))))

SplitNodePortals(N, node, boundary_portals) ==
    SplitLoop(N, node, boundary_portals,
              [front |-> <<>>, back |-> <<>>, tiny |-> 0, fatal |-> ""])

\* stats.c_tinyportals++ and clock.increase(): increments of atomic
\* counters, one indivisible read-modify-write each.
IncrementLostToSibling(counter, by) ==
    IF Cardinality({n \in DOMAIN mtp : mtp[n].at \in {"enter", "make", "split"}}) > 1
    THEN counter ELSE counter + by
fetch_add(counter, by) == counter + by

\* portaltype_t of the pass: MakeTreePortals builds the TREE portals.
StopsAt(N, node, type) == N[node].is_leaf \/ (type = "VIS" /\ N[node].detail_separator)

\* A SplitNodePortals call with its arguments and its result.
SplitCall(node, input, split) ==
    [node |-> node, input |-> input, front |-> split.front, back |-> split.back]

\* Lines 455-458, with the counts and the calls of the three steps.
MergeFragments(call, tiny, front_fragments, back_fragments) ==
    [list |-> front_fragments.list \o back_fragments.list,
     tiny |-> tiny + front_fragments.tiny + back_fragments.tiny,
     calls |-> <<call>> \o front_fragments.calls \o back_fragments.calls,
     fatal |-> IF front_fragments.fatal # "" THEN front_fragments.fatal
               ELSE back_fragments.fatal]

ClipNodePortalsNowhere(N, node, type, list) ==
    [list |-> list, tiny |-> 0, calls |-> <<>>, fatal |-> ""]

\* ClipNodePortalsToTree_r: [list, tiny, calls, fatal]; calls are the
\* SplitNodePortals calls made.
RECURSIVE ClipNodePortalsToTree_r(_, _, _, _)

\* Lines 452-458, for the result of the split of line 450.
ClipFragments(N, node, type, list, split) ==
    IF split.fatal # ""
    THEN [list |-> <<>>, tiny |-> split.tiny, calls |-> <<SplitCall(node, list, split)>>,
          fatal |-> split.fatal]
    ELSE MergeFragments(
             SplitCall(node, list, split), split.tiny,
             ClipNodePortalsToTree_r(N, Side(N[node].children, 0), type, split.front),
             ClipNodePortalsToTree_r(N, Side(N[node].children, 1), type, split.back))

ClipNodePortalsToTree_r(N, node, type, list) ==
    IF list = <<>> \/ StopsAt(N, node, type)
    THEN [list |-> list, tiny |-> 0, calls |-> <<>>, fatal |-> ""]
    ELSE ClipFragments(N, node, type, list, SplitNodePortals(N, node, list))

\* Line 502 after line 500: half_clipped pushed down the back child.
ClipHalfClipped(N, back, type, half_clipped) ==
    IF half_clipped.fatal # ""
    THEN half_clipped
    ELSE [ClipNodePortalsToTree_r(N, back, type, half_clipped.list) EXCEPT
             !.tiny = @ + half_clipped.tiny,
             !.calls = half_clipped.calls \o @]

\* Lines 493-505: result_portals_onnode, with the counts and the calls.
ClipNodePortal(N, node, type, nodeportal) ==
    ClipHalfClipped(N, Side(N[node].children, 1), type,
        ClipNodePortalsToTree_r(N, Side(N[node].children, 0), type, nodeportal))

(***************************************************************************)
(* FLOOD AREAS                                                             *)
(***************************************************************************)
RECURSIVE ApplyArea_r(_, _, _)
ApplyArea_r(ar, node, c) ==
    LET a1 == [ar EXCEPT ![node] = c]
    IN  IF nodes[node].is_leaf
        THEN a1
        ELSE ApplyArea_r(ApplyArea_r(a1, Side(nodes[node].children, 0), c),
                         Side(nodes[node].children, 1), c)

RECURSIVE FirstAreaportalBrush(_)
FirstAreaportalBrush(brushes) ==
    IF brushes = <<>> THEN NULL
    ELSE IF Head(brushes) # NULL THEN Head(brushes)
    ELSE FirstAreaportalBrush(Tail(brushes))

RECURSIVE AreanodeEntityForLeaf(_)
AreanodeEntityForLeaf(node) ==
    IF ~nodes[node].is_leaf
    THEN LET child0result == AreanodeEntityForLeaf(Side(nodes[node].children, 0))
         IN  IF child0result # NULL
             THEN child0result
             ELSE AreanodeEntityForLeaf(Side(nodes[node].children, 1))
    ELSE FirstAreaportalBrush(nodes[node].original_brushes)

\* The leaf clusters of the tree in traversal order (children[0] first).
RECURSIVE FindOccupiedClusters(_)
FindOccupiedClusters(node) ==
    IF nodes[node].is_leaf
    THEN <<node>>
    ELSE FindOccupiedClusters(Side(nodes[node].children, 0))
             \o FindOccupiedClusters(Side(nodes[node].children, 1))

\* FloodAreas_r, line 590: the node is treated as area-portal content.
FloodTreatsAsAreaportal(node) ==
    (nodes[node].is_leaf \/ nodes[node].detail_separator)
        /\ Q2_CONTENTS_AREAPORTAL \in ClusterContents(nodes, node)

Pop(s) == SubSeq(s, 1, Len(s) - 1)
Top(s) == s[Len(s)]
Running == fatal = ""

\* FindAreas, lines 658-664: the leaf starts no flood.
FindAreasSkipsFlooded(leaf) == area[leaf] # 0
FindAreasSkips(leaf) ==
    area[leaf] # 0 \/ Q2_CONTENTS_AREAPORTAL \in ClusterContents(nodes, leaf)

\* FindAreas, line 666: map.c_areas++.
NewAreaIdReused == c_areas
NewAreaId == c_areas + 1

\* One iteration of the range-for of FindAreas (or its end, which lets
\* FloodAreas go on to SetAreaPortalAreas_r(headnode)).
FindAreas ==
    /\ Running /\ pc = "FindAreas" /\ stack = <<>>
    /\ IF li > Len(leafs)
       THEN /\ pc' = "SetAreaPortalAreas_r"
            /\ stack' = <<[node |-> headnode]>>
            /\ UNCHANGED <<li, c_areas, starts>>
       ELSE /\ li' = li + 1
            /\ pc' = pc
            /\ IF FindAreasSkips(leafs[li])
               THEN UNCHANGED <<c_areas, stack, starts>>
               ELSE /\ c_areas' = NewAreaId
                    /\ starts' = Append(starts, NewAreaId)
                    /\ stack' = <<[node |-> leafs[li], at |-> "enter", p |-> 0]>>
    /\ UNCHANGED buildvars
    /\ UNCHANGED <<nodes, headnode, portals, nodeportals, area, portalareas,
                   areaportalnum, leafs, log, dareas, dareaportals, fatal>>
    /\ UNCHANGED toolvars

\* No area is taken to have touched the entity.
NeverTouched(entity) == FALSE

\* Line 603: the current area has already touched the entity.
AlreadyTouched(entity) ==
    Side(portalareas[entity], 0) = c_areas \/ Side(portalareas[entity], 1) = c_areas

TouchAreaportal(entity) ==
    IF AlreadyTouched(entity)
    THEN UNCHANGED <<portalareas, log>>
    ELSE IF Side(portalareas[entity], 1) # 0
    THEN /\ log' = Append(log, [w |-> "touches > 2 areas", e |-> entity, a |-> c_areas])
         /\ UNCHANGED portalareas
    ELSE IF Side(portalareas[entity], 0) # 0
    THEN /\ portalareas' = [portalareas EXCEPT ![entity] = SetSide(@, 1, c_areas)]
         /\ UNCHANGED log
    ELSE /\ portalareas' = [portalareas EXCEPT ![entity] = SetSide(@, 0, c_areas)]
         /\ UNCHANGED log

\* FloodAreas_r from its entry to the start of the portal loop (lines 590-633).
FloodAreas_r_Enter ==
    /\ Running /\ pc = "FindAreas" /\ stack # <<>> /\ Top(stack).at = "enter"
    /\ LET node == Top(stack).node IN
       IF FloodTreatsAsAreaportal(node)
       THEN /\ LET entity == AreanodeEntityForLeaf(node) IN
               IF entity = NULL
               THEN /\ log' = Append(log, [w |-> "no entity found", e |-> NULL, a |-> node])
                    /\ UNCHANGED portalareas
               ELSE TouchAreaportal(entity)
            /\ stack' = Pop(stack)
            /\ UNCHANGED area
       ELSE IF area[node] # 0
       THEN /\ stack' = Pop(stack)
            /\ UNCHANGED <<area, portalareas, log>>
       ELSE /\ area' = IF nodes[node].is_leaf
                       THEN [area EXCEPT ![node] = c_areas]
                       ELSE ApplyArea_r([area EXCEPT ![node] = c_areas], node, c_areas)
            /\ stack' = [stack EXCEPT ![Len(stack)] =
                            [node |-> node, at |-> "loop", p |-> nodeportals[node]]]
            /\ UNCHANGED <<portalareas, log>>
    /\ UNCHANGED buildvars
    /\ UNCHANGED <<nodes, headnode, portals, nodeportals, c_areas, areaportalnum,
                   pc, leafs, li, starts, dareas, dareaportals, fatal>>
    /\ UNCHANGED toolvars

\* One iteration of the portal loop of FloodAreas_r (lines 633-643), or its
\* end, which returns to the caller.
FloodAreas_r_Loop ==
    /\ Running /\ pc = "FindAreas" /\ stack # <<>> /\ Top(stack).at = "loop"
    /\ LET node == Top(stack).node
           p == Top(stack).p
       IN  IF p = 0
           THEN stack' = Pop(stack) /\ UNCHANGED fatal
           ELSE LET s == PortalSide(p, node)
                    cont == [node |-> node, at |-> "loop", p |-> Side(portals[p].next, s)]
                    flood == Portal_EntityFlood(p, s)
                IN  IF flood = "FError"
                    THEN fatal' = "Portal_EntityFlood: not a leaf" /\ UNCHANGED stack
                    ELSE IF flood = "false"
                    THEN stack' = [stack EXCEPT ![Len(stack)] = cont] /\ UNCHANGED fatal
                    ELSE /\ stack' = Append([stack EXCEPT ![Len(stack)] = cont],
                                        [node |-> Side(portals[p].nodes, Other(s)),
                                         at |-> "enter", p |-> 0])
                         /\ UNCHANGED fatal
    /\ UNCHANGED buildvars
    /\ UNCHANGED <<nodes, headnode, portals, nodeportals, area, c_areas, portalareas,
                   areaportalnum, pc, leafs, li, log, starts, dareas, dareaportals>>
    /\ UNCHANGED toolvars

\* SetAreaPortalAreas_r, line 687: the leaf is left alone by the second pass.
SetPassSkipsContents(node) == nodes[node].contents # {Q2_CONTENTS_AREAPORTAL}

\* One call of SetAreaPortalAreas_r; the two recursive calls of an internal
\* node are the next two frames, children[0] on top.
SetAreaPortalAreas_r ==
    /\ Running /\ pc = "SetAreaPortalAreas_r" /\ stack # <<>>
    /\ LET node == Top(stack).node IN
       IF ~nodes[node].is_leaf
       THEN /\ stack' = Pop(stack) \o <<[node |-> Side(nodes[node].children, 1)],
                                         [node |-> Side(nodes[node].children, 0)]>>
            /\ UNCHANGED <<area, log>>
       ELSE /\ stack' = Pop(stack)
            /\ IF SetPassSkipsContents(node) \/ area[node] # 0
               THEN UNCHANGED <<area, log>>
               ELSE LET entity == AreanodeEntityForLeaf(node) IN
                    IF entity = NULL
                    THEN /\ log' = Append(log, [w |-> "areaportal missing", e |-> NULL,
                                                a |-> node])
                         /\ UNCHANGED area
                    ELSE /\ area' = [area EXCEPT ![node] = Side(portalareas[entity], 0)]
                         /\ log' = IF Side(portalareas[entity], 1) = 0
                                   THEN Append(log, [w |-> "doesn't touch two areas",
                                                     e |-> entity, a |-> node])
                                   ELSE log
    /\ UNCHANGED buildvars
    /\ UNCHANGED <<nodes, headnode, portals, nodeportals, c_areas, portalareas,
                   areaportalnum, pc, leafs, li, starts, dareas, dareaportals, fatal>>
    /\ UNCHANGED toolvars

\* FloodAreas returns once SetAreaPortalAreas_r(headnode) has returned.
FloodAreasReturn ==
    /\ Running /\ pc = "SetAreaPortalAreas_r" /\ stack = <<>>
    /\ pc' = "EmitAreaPortals"
    /\ UNCHANGED buildvars
    /\ UNCHANGED <<nodes, headnode, portals, nodeportals, area, c_areas, portalareas,
                   areaportalnum, leafs, li, stack, log, starts, dareas, dareaportals,
                   fatal>>
    /\ UNCHANGED toolvars

(***************************************************************************)
(* EmitAreaPortals                                                         *)
(***************************************************************************)
\* Lines 730-738: the dareaportal_t an entity contributes to area i.
AreaPortalFor(e, i) ==
    IF Side(portalareas[e], 0) = i
    THEN [portalnum |-> areaportalnum[e], otherarea |-> Side(portalareas[e], 1)]
    ELSE IF Side(portalareas[e], 1) = i
    THEN [portalnum |-> areaportalnum[e], otherarea |-> Side(portalareas[e], 0)]
    ELSE [portalnum |-> 0, otherarea |-> 0]

\* Lines 740-748: push dp unless an equal entry is already in dareaportals.
PushAlways(dap, dp) == Append(dap, dp)
PushUnique(dap, dp) ==
    IF \E j \in 1..Len(dap) : dap[j] = dp THEN dap ELSE Append(dap, dp)

\* The loop over map.entities of lines 726-749, from entity e on.
RECURSIVE EmitEntities(_, _, _)
EmitEntities(dap, e, i) ==
    IF e > MaxEntities
    THEN dap
    ELSE IF areaportalnum[e] = 0
    THEN EmitEntities(dap, e + 1, i)
    ELSE EmitEntities(PushUnique(dap, AreaPortalFor(e, i)), e + 1, i)

\* The loop over areas of lines 722-752, from area i on.
RECURSIVE EmitAreas(_, _)
EmitAreas(bsp, i) ==
    IF i > c_areas
    THEN bsp
    ELSE LET first == Len(bsp.dareaportals)
             dap == EmitEntities(bsp.dareaportals, 0, i)
         IN  EmitAreas([dareaportals |-> dap,
                        dareas |-> Append(bsp.dareas,
                                     [firstareaportal |-> first,
                                      numareaportals |-> Len(dap) - first])],
                       i + 1)

EmitAreaPortals ==
    /\ Running /\ pc = "EmitAreaPortals"
    /\ LET bsp == EmitAreas(
                    [dareaportals |-> Append(dareaportals, [portalnum |-> 0, otherarea |-> 0]),
                     dareas |-> Append(dareas, [firstareaportal |-> 0, numareaportals |-> 0])],
                    1)
       IN  /\ dareas' = bsp.dareas
           /\ dareaportals' = bsp.dareaportals
    /\ pc' = "done"
    /\ UNCHANGED buildvars
    /\ UNCHANGED <<nodes, headnode, portals, nodeportals, area, c_areas, portalareas,
                   areaportalnum, leafs, li, stack, log, starts, fatal>>
    /\ UNCHANGED toolvars

(***************************************************************************)
(* Inputs of the flood: a portalized tree of MaxLeafs leafs.               *)
(***************************************************************************)
Leafs == 1..MaxLeafs
Entities == 1..MaxEntities
outside_node == 0

\* Contents and original_brushes (each brush given by its func_areaportal)
\* of a leaf that is no area portal.
RoomKinds ==
    { [contents |-> {}, original_brushes |-> <<>>],
      [contents |-> {Q2_CONTENTS_SOLID}, original_brushes |-> <<NULL>>] }

\* ... and of a leaf inside a func_areaportal brush.
AreaportalKinds ==
    { [contents |-> {Q2_CONTENTS_AREAPORTAL}, original_brushes |-> <<NULL, e>>] :
          e \in Entities }
    \cup { [contents |-> {Q2_CONTENTS_AREAPORTAL, Q2_CONTENTS_TRANSLUCENT},
            original_brushes |-> <<1>>],
           [contents |-> {Q2_CONTENTS_AREAPORTAL}, original_brushes |-> <<NULL>>] }

\* The leafs that may lie inside an area portal: the last two of the tree.
AreaportalLeafs == {l \in Leafs : l > MaxLeafs - 2}
RoomLeafs == Leafs \ AreaportalLeafs

\* A tree whose leafs 1..MaxLeafs are met in this order by a traversal:
\* internal node MaxLeafs + i has leaf i in front and the rest behind.
FloodTree(kind) ==
    [n \in 0..(2 * MaxLeafs - 1) |->
        IF n = outside_node
        THEN [is_leaf |-> TRUE, detail_separator |-> FALSE, children |-> <<NULL, NULL>>,
              parent |-> NULL, plane |-> NoPlane, contents |-> {Q2_CONTENTS_SOLID},
              original_brushes |-> <<>>]
        ELSE IF n \in Leafs
        THEN [is_leaf |-> TRUE, detail_separator |-> FALSE, children |-> <<NULL, NULL>>,
              plane |-> NoPlane,
              parent |-> IF n = MaxLeafs THEN 2 * MaxLeafs - 1 ELSE MaxLeafs + n,
              contents |-> kind[n].contents,
              original_brushes |-> kind[n].original_brushes]
        ELSE [is_leaf |-> FALSE, detail_separator |-> FALSE,
              children |-> <<n - MaxLeafs,
                             IF n = 2 * MaxLeafs - 1 THEN MaxLeafs ELSE n + 1>>,
              parent |-> IF n = MaxLeafs + 1 THEN NULL ELSE n - 1,
              plane |-> NoPlane, contents |-> {}, original_brushes |-> <<>>]]

\* Pairs of leafs <<i, j>>, i < j, in lexicographic order.
RECURSIVE PairsFrom(_, _)
PairsFrom(i, j) ==
    IF i >= MaxLeafs THEN <<>>
    ELSE IF j > MaxLeafs THEN PairsFrom(i + 1, i + 2)
    ELSE <<<<i, j>>>> \o PairsFrom(i, j + 1)

\* Every room leaf borders both of the last two leafs.
FixedPairs == RoomLeafs \X AreaportalLeafs
\* Neighbouring leafs may share a portal.
OptionalPairs == {pr \in Leafs \X Leafs : pr[2] = pr[1] + 1}

\* The build-portals of a leaf graph: one between the outside node and leaf 1,
\* then one per pair.
BuildportalsOf(pairs) ==
    <<[nodes |-> <<outside_node, 1>>, plane |-> NoPlane, onnode |-> NULL,
       winding |-> NoWinding]>>
    \o [k \in 1..Len(pairs) |->
          [nodes |-> pairs[k], plane |-> NoPlane, onnode |-> headnode,
            winding |-> NoWinding]]

EmptyHeap(N) ==
    [portals |-> <<>>, heads |-> [n \in DOMAIN N |-> 0], fatal |-> ""]

\* A MakeTreePortals_r call that is not running.
IdleTask == [at |-> "idle", boundary_portals |-> <<>>, nodeportal |-> <<>>,
             result |-> <<>>]

WorldBounds == [mins |-> <<0 - 640, 0 - 640, 0 - 640>>, maxs |-> <<640, 640, 640>>]

\* tree->bounds of a map without brushes along x (mins above maxs, as an
\* aabb3d nothing was added to), and of one that the padding of 24 units
\* makes flat along y.
InvertedBounds == [mins |-> <<640, 0 - 640, 0 - 640>>, maxs |-> <<0 - 640, 640, 640>>]
FlatBounds == [mins |-> <<0 - 640, 240, 0 - 640>>, maxs |-> <<640, 0 - 240, 640>>]
TreeBounds == {WorldBounds, InvertedBounds, FlatBounds}

InitFlood ==
    /\ \E rk \in [RoomLeafs -> RoomKinds],
          ak \in [AreaportalLeafs -> RoomKinds \cup AreaportalKinds] :
          nodes = FloodTree(rk @@ ak)
    /\ headnode = IF MaxLeafs = 1 THEN 1 ELSE MaxLeafs + 1
    /\ \E opt \in SUBSET (OptionalPairs \ FixedPairs) :
          LET heap == MakePortalsFromBuildportals(
                          EmptyHeap(nodes),
                          BuildportalsOf(SelectSeq(PairsFrom(1, 2),
                              LAMBDA pr : pr \in FixedPairs \cup opt)))
          IN  /\ portals = heap.portals
              /\ nodeportals = heap.heads
    /\ area = [n \in DOMAIN nodes |-> 0]
    /\ c_areas = 0
    /\ portalareas = [e \in 0..MaxEntities |-> <<0, 0>>]
    /\ areaportalnum = [e \in 0..MaxEntities |-> e]
    /\ pc = "FindAreas"
    /\ leafs = FindOccupiedClusters(headnode)
    /\ li = 1
    /\ stack = <<>>
    /\ log = <<>>
    /\ starts = <<>>
    /\ dareas = <<>>
    /\ dareaportals = <<>>
    /\ fatal = ""
    /\ ToolsIdle
    /\ tree_bounds = WorldBounds
    /\ mtp = [n \in DOMAIN nodes \ {outside_node} |-> IdleTask]
    /\ c_tinyportals = 0
    /\ clock = 0
    /\ splitcalls = <<>>
    /\ node_bounds = [n \in DOMAIN nodes |-> tree_bounds]
    /\ ctb = [n \in DOMAIN nodes \ {outside_node} |-> "idle"]

NextFlood ==
    \/ FindAreas
    \/ FloodAreas_r_Enter
    \/ FloodAreas_r_Loop
    \/ SetAreaPortalAreas_r
    \/ FloodAreasReturn
    \/ EmitAreaPortals

SpecFlood == InitFlood /\ [][NextFlood]_vars

(***************************************************************************)
(* MAKE TREE PORTALS                                                       *)
(*                                                                         *)
(* Each call of MakeTreePortals_r is a task on its node; the two tasks a   *)
(* task_group runs interleave step by step, and g.wait() is the guard of   *)
(* the join step.                                                          *)
(***************************************************************************)
MaxNodes == 3

\* The planes the BSP build may have given to a node: three parallel planes
\* 0.2 units apart, and one across them, 0.2 units from a side of the padded
\* box of WorldBounds.
NodePlanes ==
    { [axis |-> 0, dist |-> d, sign |-> 1] : d \in {0, 2, 4} }
        \cup { [axis |-> 1, dist |-> 0 - 878, sign |-> 1] }

\* The head node is 1 and the children of node n are 2n and 2n + 1.
RECURSIVE Pow2(_)
Pow2(k) == IF k = 0 THEN 1 ELSE 2 * Pow2(k - 1)

TreeShapes ==
    { I \in SUBSET (1..(Pow2(MaxNodes) - 1)) :
          /\ 1 \in I
          /\ Cardinality(I) <= MaxNodes
          /\ \A n \in I : n = 1 \/ (n \div 2) \in I }

\* The detail separators are a subtree-closed set of nodes: none, or every
\* node below the head node.
DetailSets(I) == { {}, I \ {1} }

RECURSIVE Ancestors(_)
Ancestors(n) == IF n = 1 THEN {} ELSE {n \div 2} \cup Ancestors(n \div 2)

\* The BSP build never splits a node by the plane of one of its ancestors.
PlaneChoices(I) ==
    { planes \in [I -> NodePlanes] :
          \A n \in I : \A a \in Ancestors(n) : planes[a] # planes[n] }

BuilderTree(I, planes, D) ==
    [n \in {outside_node} \cup I \cup {2 * k : k \in I} \cup {2 * k + 1 : k \in I} |->
        IF n = outside_node
        THEN [is_leaf |-> FALSE, detail_separator |-> FALSE, children |-> <<NULL, NULL>>,
              parent |-> NULL, plane |-> NoPlane, contents |-> {},
              original_brushes |-> <<>>]
        ELSE [is_leaf |-> n \notin I, detail_separator |-> n \in D,
              children |-> IF n \in I THEN <<2 * n, 2 * n + 1>> ELSE <<NULL, NULL>>,
              parent |-> IF n = 1 THEN NULL ELSE n \div 2,
              plane |-> IF n \in I THEN planes[n] ELSE NoPlane,
              contents |-> {}, original_brushes |-> <<>>]]

InitPortals ==
    /\ \E I \in TreeShapes : \E planes \in PlaneChoices(I), D \in DetailSets(I) :
          nodes = BuilderTree(I, planes, D)
    /\ headnode = 1
    /\ tree_bounds \in TreeBounds
    /\ portals = <<>>
    /\ nodeportals = [n \in DOMAIN nodes |-> 0]
    /\ mtp = [n \in DOMAIN nodes \ {outside_node} |-> IdleTask]
    /\ c_tinyportals = 0
    /\ clock = 0
    /\ splitcalls = <<>>
    /\ node_bounds = [n \in DOMAIN nodes |-> tree_bounds]
    /\ ctb = [n \in DOMAIN nodes \ {outside_node} |-> "idle"]
    /\ area = [n \in DOMAIN nodes |-> 0]
    /\ c_areas = 0
    /\ portalareas = [e \in 0..MaxEntities |-> <<0, 0>>]
    /\ areaportalnum = [e \in 0..MaxEntities |-> e]
    /\ pc = "MakeTreePortals"
    /\ leafs = <<>>
    /\ li = 1
    /\ stack = <<>>
    /\ log = <<>>
    /\ starts = <<>>
    /\ dareas = <<>>
    /\ dareaportals = <<>>
    /\ fatal = ""
    /\ ToolsIdle

floodvars == <<area, c_areas, portalareas, areaportalnum, leafs, li, stack, log,
               starts, dareas, dareaportals>>

\* Lines 528-534, for the list MakeHeadnodePortals returned.
StartTreePortals(headnodeportals) ==
    IF \E k \in 1..6 : headnodeportals[k].winding = NoWinding
    THEN /\ fatal' = "portal winding clipped away"
         /\ UNCHANGED <<pc, mtp>>
    ELSE /\ pc' = "MakeTreePortals_r"
         /\ mtp' = [mtp EXCEPT ![headnode] =
                       [IdleTask EXCEPT !.at = "enter",
                                        !.boundary_portals = headnodeportals]]
         /\ UNCHANGED fatal

\* The portals of the tree are kept.
KeepTreePortals(list) == list

\* FreeTreePortals, line 524: tree->portals after the call.
FreeTreePortals(list) == <<>>

\* MakeTreePortals, lines 524-534: FreeTreePortals, MakeHeadnodePortals and
\* the call of MakeTreePortals_r on the head node.
MakeTreePortals ==
    /\ Running
    /\ pc = "MakeTreePortals"
    /\ portals' = FreeTreePortals(portals)
    /\ nodeportals' = [n \in DOMAIN nodes |-> 0]
    /\ nodes' = [nodes EXCEPT ![outside_node].is_leaf = TRUE,
                              ![outside_node].contents = {Q2_CONTENTS_SOLID}]
    /\ c_tinyportals' = 0
    /\ clock' = 0
    /\ splitcalls' = <<>>
    /\ StartTreePortals(MakeHeadnodePortals(tree_bounds, headnode))
    /\ UNCHANGED <<headnode, tree_bounds>>
    /\ UNCHANGED <<node_bounds, ctb>>
    /\ UNCHANGED floodvars
    /\ UNCHANGED toolvars

\* MakeTreePortals_r, lines 470-474.
MTP_Enter(n) ==
    /\ Running
    /\ pc = "MakeTreePortals_r"
    /\ mtp[n].at = "enter"
    /\ clock' = fetch_add(clock, 1)
    /\ mtp' = IF StopsAt(nodes, n, "TREE")
              THEN [mtp EXCEPT ![n].at = "done", ![n].result = mtp[n].boundary_portals,
                               ![n].boundary_portals = <<>>]
              ELSE [mtp EXCEPT ![n].at = "make"]
    /\ splitcalls' = <<>>
    /\ UNCHANGED <<nodes, headnode, tree_bounds, portals, nodeportals, pc, fatal,
                   c_tinyportals>>
    /\ UNCHANGED <<node_bounds, ctb>>
    /\ UNCHANGED floodvars
    /\ UNCHANGED toolvars

\* Line 477, for the result of MakeNodePortal; the Error of line 252 ends
\* the run inside the call.
KeepNodePortal(n, made) ==
    /\ fatal' = made.fatal
    /\ c_tinyportals' = fetch_add(c_tinyportals, made.tiny)
    /\ mtp' = IF made.fatal # "" THEN mtp
              ELSE [mtp EXCEPT ![n].at = "split",
                               ![n].nodeportal = IF made.portal = NoPortal THEN <<>>
                                                 ELSE <<made.portal>>]

\* MakeTreePortals_r, line 477.
MTP_MakeNodePortal(n) ==
    /\ Running
    /\ pc = "MakeTreePortals_r"
    /\ mtp[n].at = "make"
    /\ KeepNodePortal(n, MakeNodePortal(nodes, n, mtp[n].boundary_portals))
    /\ splitcalls' = <<>>
    /\ UNCHANGED <<nodes, headnode, tree_bounds, portals, nodeportals, pc, clock>>
    /\ UNCHANGED <<node_bounds, ctb>>
    /\ UNCHANGED floodvars
    /\ UNCHANGED toolvars

\* Lines 484-488, for the result of SplitNodePortals: both tasks start; the
\* FError of line 299 ends the run inside the call.
RunChildren(n, split) ==
    /\ fatal' = split.fatal
    /\ c_tinyportals' = fetch_add(c_tinyportals, split.tiny)
    /\ splitcalls' = <<[node |-> n, input |-> mtp[n].boundary_portals,
                        front |-> split.front, back |-> split.back]>>
    /\ mtp' = IF split.fatal # "" THEN mtp ELSE
              [mtp EXCEPT
                 ![n].at = "wait",
                 ![n].boundary_portals = <<>>,
                 ![Side(nodes[n].children, 0)] =
                     [IdleTask EXCEPT !.at = "enter", !.boundary_portals = split.front],
                 ![Side(nodes[n].children, 1)] =
                     [IdleTask EXCEPT !.at = "enter", !.boundary_portals = split.back]]

\* MakeTreePortals_r, lines 482-488: the split, and the start of both tasks.
MTP_Split(n) ==
    /\ Running
    /\ pc = "MakeTreePortals_r"
    /\ mtp[n].at = "split"
    /\ RunChildren(n, SplitNodePortals(nodes, n, mtp[n].boundary_portals))
    /\ UNCHANGED <<nodes, headnode, tree_bounds, portals, nodeportals, pc, clock>>
    /\ UNCHANGED <<node_bounds, ctb>>
    /\ UNCHANGED floodvars
    /\ UNCHANGED toolvars

\* Lines 507-512, for the clipped node portal: the three lists are merged.
MergeResults(n, onnode) ==
    /\ fatal' = onnode.fatal
    /\ c_tinyportals' = fetch_add(c_tinyportals, onnode.tiny)
    /\ splitcalls' = onnode.calls
    /\ mtp' = [mtp EXCEPT
                 ![n].at = "done",
                 ![n].nodeportal = <<>>,
                 ![n].result = mtp[Side(nodes[n].children, 0)].result
                                   \o mtp[Side(nodes[n].children, 1)].result
                                   \o onnode.list,
                 ![Side(nodes[n].children, 0)] = IdleTask,
                 ![Side(nodes[n].children, 1)] = IdleTask]

\* The task of children[0] has returned.
FrontTaskDone(n) == mtp[Side(nodes[n].children, 0)].at = "done"

\* g.wait(), line 489: both tasks of the task_group have returned.
ChildTasksDone(n) ==
    /\ mtp[Side(nodes[n].children, 0)].at = "done"
    /\ mtp[Side(nodes[n].children, 1)].at = "done"

\* MakeTreePortals_r, lines 489-512: after g.wait(), the node portal is
\* pushed down both sides and the three lists are merged.
MTP_Join(n) ==
    /\ Running
    /\ pc = "MakeTreePortals_r"
    /\ mtp[n].at = "wait"
    /\ ChildTasksDone(n)
    /\ MergeResults(n, ClipNodePortal(nodes, n, "TREE", mtp[n].nodeportal))
    /\ UNCHANGED <<nodes, headnode, tree_bounds, portals, nodeportals, pc, clock>>
    /\ UNCHANGED <<node_bounds, ctb>>
    /\ UNCHANGED floodvars
    /\ UNCHANGED toolvars

\* Line 536, for the heap MakePortalsFromBuildportals leaves.
KeepPortals(heap) ==
    /\ portals' = heap.portals
    /\ nodeportals' = heap.heads
    /\ fatal' = heap.fatal

\* MakeTreePortals, line 536.
MTP_Return ==
    /\ Running
    /\ pc = "MakeTreePortals_r"
    /\ mtp[headnode].at = "done"
    /\ KeepPortals(MakePortalsFromBuildportals(EmptyHeap(nodes), mtp[headnode].result))
    /\ mtp' = [mtp EXCEPT ![headnode] = IdleTask]
    /\ pc' = "CalcTreeBounds"
    /\ splitcalls' = <<>>
    /\ UNCHANGED <<nodes, headnode, tree_bounds, c_tinyportals, clock>>
    /\ ctb' = [ctb EXCEPT ![headnode] = "enter"]
    /\ UNCHANGED node_bounds
    /\ UNCHANGED floodvars
    /\ UNCHANGED toolvars

(***************************************************************************)
(* CALC TREE BOUNDS                                                        *)
(*                                                                         *)
(* An aabb3d is [mins, maxs]; the box nothing was added to has mins above  *)
(* maxs.  Each call of CalcTreeBounds_r is a task on its node.             *)
(***************************************************************************)
\* The walk of node's list that CalcNodeBounds and the flood make, at most
\* fuel portals long.
RECURSIVE ListWalk(_, _, _)
ListWalk(node, p, fuel) ==
    IF p = 0 \/ fuel = 0 THEN <<>>
    ELSE <<p>> \o ListWalk(node, Side(portals[p].next, PortalSide(p, node)), fuel - 1)

NodeList(node) == ListWalk(node, nodeportals[node], Len(portals) + 1)
\* The largest coordinate an aabb3d holds.
Huge == 10000000
\* qbsp_options.worldextent, 65536 units.
WorldExtent == 655360

EmptyBox == [mins |-> <<Huge, Huge, Huge>>, maxs |-> <<0 - Huge, 0 - Huge, 0 - Huge>>]

Least(a, b) == IF a < b THEN a ELSE b
Greatest(a, b) == IF a > b THEN a ELSE b
Abs(v) == IF v < 0 THEN 0 - v ELSE v

\* aabb3d::operator+ : the box around both.
aabb_union(a, b) ==
    [mins |-> <<Least(a.mins[1], b.mins[1]), Least(a.mins[2], b.mins[2]),
                Least(a.mins[3], b.mins[3])>>,
     maxs |-> <<Greatest(a.maxs[1], b.maxs[1]), Greatest(a.maxs[2], b.maxs[2]),
                Greatest(a.maxs[3], b.maxs[3])>>]

\* Lines 395-397: every point of the winding of each portal of the list is
\* added to the box.
RECURSIVE AddPortals(_, _)
AddPortals(box, list) ==
    IF list = <<>> THEN box
    ELSE AddPortals(aabb_union(box, [mins |-> portals[Head(list)].winding.lo,
                                     maxs |-> portals[Head(list)].winding.hi]),
                    Tail(list))

CalcNodeBounds(node) == AddPortals(EmptyBox, NodeList(node))

\* Line 418.
WithoutVolume(box) == box.mins[1] >= box.maxs[1]

\* Line 422.
Unbounded(box) == \E k \in 1..3 : Abs(box.mins[k]) > WorldExtent

\* Line 420: the outcomes of the assignment, [bounds, fatal].  node->parent
\* is null for the head node, and reading through it is undefined: the run
\* is killed, or some box is read.
FallbackAborts(node) ==
    {[bounds |-> node_bounds[node], fatal |-> "node without a volume"]}
FallbackBounds(node) ==
    IF nodes[node].parent = NULL
    THEN {[bounds |-> node_bounds[node], fatal |-> "SIGSEGV"],
          [bounds |-> EmptyBox, fatal |-> ""],
          [bounds |-> tree_bounds, fatal |-> ""]}
    ELSE {[bounds |-> [mins |-> node_bounds[nodes[node].parent].mins,
                       maxs |-> node_bounds[nodes[node].parent].mins],
           fatal |-> ""]}

Warning(node, text) == <<[w |-> text, e |-> NULL, a |-> node]>>

\* Lines 422-427, for the box the node ends with.
StoreBounds(node, box, warned) ==
    /\ node_bounds' = [node_bounds EXCEPT ![node] = box]
    /\ log' = log \o warned
                  \o (IF Unbounded(box) THEN Warning(node, "with unbounded volume")
                      ELSE <<>>)

\* Lines 418-427, for the box of line 405 or 415.
CheckBounds(node, box) ==
    IF WithoutVolume(box)
    THEN \E out \in FallbackBounds(node) :
            /\ fatal' = out.fatal
            /\ IF out.fatal # ""
               THEN /\ log' = log \o Warning(node, "without a volume")
                    /\ UNCHANGED node_bounds
               ELSE StoreBounds(node, out.bounds, Warning(node, "without a volume"))
    ELSE /\ fatal' = fatal
         /\ StoreBounds(node, box, <<>>)

\* CalcTreeBounds_r on a leaf, lines 404-405 and 418-427.
CTB_Leaf(n) ==
    /\ Running
    /\ pc = "CalcTreeBounds"
    /\ ctb[n] = "enter"
    /\ nodes[n].is_leaf
    /\ CheckBounds(n, CalcNodeBounds(n))
    /\ ctb' = [ctb EXCEPT ![n] = "done"]
    /\ UNCHANGED <<nodes, headnode, portals, nodeportals, pc, tree_bounds, mtp,
                   c_tinyportals, clock, splitcalls>>
    /\ UNCHANGED <<area, c_areas, portalareas, areaportalnum, leafs, li, stack,
                   starts, dareas, dareaportals>>
    /\ UNCHANGED toolvars

\* Lines 407-410: both tasks start.
CTB_Fork(n) ==
    /\ Running
    /\ pc = "CalcTreeBounds"
    /\ ctb[n] = "enter"
    /\ ~nodes[n].is_leaf
    /\ ctb' = [ctb EXCEPT ![n] = "wait",
                          ![Side(nodes[n].children, 0)] = "enter",
                          ![Side(nodes[n].children, 1)] = "enter"]
    /\ UNCHANGED <<nodes, headnode, portals, nodeportals, pc, fatal, tree_bounds, mtp,
                   c_tinyportals, clock, splitcalls, node_bounds>>
    /\ UNCHANGED floodvars
    /\ UNCHANGED toolvars

\* g.wait(), line 411: both tasks of the group have returned.
WaitsForFrontOnly(n) == ctb[Side(nodes[n].children, 0)] = "done"
TasksReturned(n) ==
    /\ ctb[Side(nodes[n].children, 0)] = "done"
    /\ ctb[Side(nodes[n].children, 1)] = "done"

\* Lines 411-427: after g.wait(), the boxes of the children are combined.
CTB_Join(n) ==
    /\ Running
    /\ pc = "CalcTreeBounds"
    /\ ctb[n] = "wait"
    /\ TasksReturned(n)
    /\ CheckBounds(n, aabb_union(node_bounds[Side(nodes[n].children, 0)],
                                 node_bounds[Side(nodes[n].children, 1)]))
    /\ ctb' = [ctb EXCEPT ![n] = "done",
                          ![Side(nodes[n].children, 0)] = "idle",
                          ![Side(nodes[n].children, 1)] = "idle"]
    /\ UNCHANGED <<nodes, headnode, portals, nodeportals, pc, tree_bounds, mtp,
                   c_tinyportals, clock, splitcalls>>
    /\ UNCHANGED <<area, c_areas, portalareas, areaportalnum, leafs, li, stack,
                   starts, dareas, dareaportals>>
    /\ UNCHANGED toolvars

\* MakeTreePortals_r is an external function: a call of it on the head node
\* by a caller that built the boundary list itself.  The list is the one of
\* MakeHeadnodePortals, or such a list, for bounds around the planes of the
\* tree or away from them, whose first or last portal is linked to a child
\* of the head node or to no node.
FarBounds == [mins |-> <<2000, 0 - 640, 0 - 640>>, maxs |-> <<3000, 640, 640>>]

WithRelinked(list, k, to) == [list EXCEPT ![k].nodes = to]

CallLists ==
    {MakeHeadnodePortals(WorldBounds, headnode)}
        \cup {WithRelinked(MakeHeadnodePortals(bounds, headnode), k, to) :
                  bounds \in {WorldBounds, FarBounds}, k \in {1, 6},
                  to \in {<<NULL, NULL>>,
                          <<Side(nodes[headnode].children, 0), outside_node>>}}

CallTreePortals_r ==
    /\ Running
    /\ pc = "MakeTreePortals"
    /\ pc' = "MakeTreePortals_r"
    /\ \E boundary_portals \in CallLists :
          mtp' = [mtp EXCEPT ![headnode] =
                     [IdleTask EXCEPT !.at = "enter",
                                      !.boundary_portals = boundary_portals]]
    /\ c_tinyportals' = 0
    /\ clock' = 0
    /\ splitcalls' = <<>>
    /\ UNCHANGED <<nodes, headnode, tree_bounds, portals, nodeportals, fatal>>
    /\ UNCHANGED <<node_bounds, ctb>>
    /\ UNCHANGED floodvars
    /\ UNCHANGED toolvars

InitCall == InitPortals /\ tree_bounds = WorldBounds

NextCall ==
    \/ CallTreePortals_r
    \/ \E n \in DOMAIN mtp : MTP_Enter(n)
    \/ \E n \in DOMAIN mtp : MTP_MakeNodePortal(n)
    \/ \E n \in DOMAIN mtp : MTP_Split(n)
    \/ \E n \in DOMAIN mtp : MTP_Join(n)
    \/ MTP_Return

SpecCall == InitCall /\ [][NextCall]_vars

NextPortals ==
    \/ MakeTreePortals
    \/ \E n \in DOMAIN mtp : MTP_Enter(n)
    \/ \E n \in DOMAIN mtp : MTP_MakeNodePortal(n)
    \/ \E n \in DOMAIN mtp : MTP_Split(n)
    \/ \E n \in DOMAIN mtp : MTP_Join(n)
    \/ MTP_Return
    \/ \E n \in DOMAIN ctb : CTB_Leaf(n)
    \/ \E n \in DOMAIN ctb : CTB_Fork(n)
    \/ \E n \in DOMAIN ctb : CTB_Join(n)

SpecPortals == InitPortals /\ [][NextPortals]_vars

\* Lines 541-545: MakeTreePortals returns; it is called once more on the
\* tree as it is.
MTP_Finish ==
    /\ Running
    /\ pc = "CalcTreeBounds"
    /\ ctb[headnode] = "done"
    /\ runs' = Append(runs, portals)
    /\ pc' = IF runs = <<>> THEN "MakeTreePortals" ELSE "done"
    /\ ctb' = [ctb EXCEPT ![headnode] = "idle"]
    /\ UNCHANGED <<nodes, headnode, portals, nodeportals, fatal, tree_bounds, mtp,
                   c_tinyportals, clock, splitcalls, node_bounds>>
    /\ UNCHANGED floodvars
    /\ UNCHANGED <<visvars, lightvars, dictvars, filevars>>

InitRedo == InitPortals /\ tree_bounds = WorldBounds

NextRedo ==
    \/ MakeTreePortals
    \/ \E n \in DOMAIN mtp : MTP_Enter(n)
    \/ \E n \in DOMAIN mtp : MTP_MakeNodePortal(n)
    \/ \E n \in DOMAIN mtp : MTP_Split(n)
    \/ \E n \in DOMAIN mtp : MTP_Join(n)
    \/ MTP_Return
    \/ \E n \in DOMAIN ctb : CTB_Leaf(n)
    \/ \E n \in DOMAIN ctb : CTB_Fork(n)
    \/ \E n \in DOMAIN ctb : CTB_Join(n)
    \/ MTP_Finish

SpecRedo == InitRedo /\ [][NextRedo]_vars

(***************************************************************************)
(* FIND PORTAL SIDE                                                        *)
(*                                                                         *)
(* A brush is [outside, inside, sides]: the two answers of                 *)
(* portal_generates_face for the portal's visible contents, and its sides  *)
(* [planenum, bevel].  Plane 2k + 1 is plane 2k negated.  A side_t object  *)
(* is named <<j, b, k>>: side k of brush b of the original_brushes of      *)
(* p->nodes[j].  Dot products are doubles, in units of 1/16.               *)
(***************************************************************************)
MaxBrushes == 2

NoSide == <<>>

\* portal_visible_contents: the contents on one side only.
portal_visible_contents(c0, c1) == (c0 \ c1) \cup (c1 \ c0)

\* side.planenum & ~1 and side.planenum & 1.
PositivePlanenum(planenum) == planenum - (planenum % 2)
PlaneBit(planenum) == planenum % 2

\* qv::dot of the normals of the positive planes of two plane numbers, for
\* the planes 0, 2, 4 and 6 of this section (0 and 6 are perpendicular).
PlaneDot(onplane, planenum) ==
    LET a == PositivePlanenum(onplane)
        b == PositivePlanenum(planenum)
    IN  CASE a = b -> 16
          [] {a, b} = {0, 2} -> 5
          [] {a, b} = {0, 4} -> 7
          [] {a, b} = {2, 6} -> 15
          [] {a, b} = {4, 6} -> 14
          [] OTHER -> 0

\* The conversion of line 845, bestdot being a float and dot a double: the
\* nearest value with two bits less.
DoubleToFloat(dot) == ((dot + 2) \div 4) * 4

\* The last side seen is kept in place of the first.
StoreLastSide(sides, j, brush, side, first) ==
    LET outer == IF brush.outside THEN SetSide(sides, Other(j), side) ELSE sides
    IN  IF brush.inside THEN SetSide(outer, j, side) ELSE outer

\* Lines 827-837 and 846-851: side is stored in the entries of sides that
\* the brush of node j generates a face for, first tells whether an entry
\* that is set is kept.
StoreSide(sides, j, brush, side, first) ==
    LET outer == IF brush.outside /\ ~(first /\ Side(sides, Other(j)) # NoSide)
                 THEN SetSide(sides, Other(j), side) ELSE sides
    IN  IF brush.inside /\ ~(first /\ Side(outer, j) # NoSide)
        THEN SetSide(outer, j, side) ELSE outer

\* Lines 817-852 for one side of the brush: the search after it, and
\* whether the loop over the sides of the brush ends.
ExamineSide(found, planenum, j, brush, ref) ==
    LET side == brush.sides[ref[3]] IN
    IF side.bevel THEN [found |-> found, break |-> FALSE]
    ELSE IF PositivePlanenum(side.planenum) = planenum
    THEN IF PlaneBit(side.planenum) # Other(j)
         THEN [found |-> [found EXCEPT !.fatal = "Q_assert"], break |-> TRUE]
         ELSE [found |-> [found EXCEPT
                             !.exactside = StoreSide(@, j, brush, ref, TRUE)],
               break |-> TRUE]
    ELSE IF PlaneDot(planenum, side.planenum) > found.bestdot
    THEN [found |-> [found EXCEPT
                        !.bestdot = DoubleToFloat(PlaneDot(planenum, side.planenum)),
                        !.bestside = StoreSide(@, j, brush, ref, FALSE)],
          break |-> FALSE]
    ELSE [found |-> found, break |-> FALSE]

\* The loop of line 816 from side k on.
RECURSIVE SidesLoop(_, _, _, _, _, _)
SidesFrom(one, planenum, j, brush, b, k) ==
    IF one.break \/ one.found.fatal # "" THEN one.found
    ELSE SidesLoop(one.found, planenum, j, brush, b, k + 1)

SidesLoop(found, planenum, j, brush, b, k) ==
    IF k > Len(brush.sides) THEN found
    ELSE SidesFrom(ExamineSide(found, planenum, j, brush, <<j, b, k>>),
                   planenum, j, brush, b, k)

\* The loop of line 805, from the last brush to the first.
RECURSIVE BrushLoop(_, _, _, _, _)
BrushLoop(found, planenum, j, brushes, b) ==
    IF b = 0 \/ found.fatal # "" THEN found
    ELSE IF ~(brushes[b].outside \/ brushes[b].inside)
    THEN BrushLoop(found, planenum, j, brushes, b - 1)
    ELSE BrushLoop(SidesLoop(found, planenum, j, brushes[b], b, 1),
                   planenum, j, brushes, b - 1)

\* Lines 794-855: the search over the brushes of both nodes of p.
SearchSides(N, p) ==
    BrushLoop(
        BrushLoop([bestside |-> <<NoSide, NoSide>>, exactside |-> <<NoSide, NoSide>>,
                   bestdot |-> 0, fatal |-> ""],
                  N[p.onnode].planenum, 0, N[Side(p.nodes, 0)].original_brushes,
                  Len(N[Side(p.nodes, 0)].original_brushes)),
        N[p.onnode].planenum, 1, N[Side(p.nodes, 1)].original_brushes,
        Len(N[Side(p.nodes, 1)].original_brushes))

\* Lines 858-862: exact sides are taken over best sides.
ExactOverBest(found) ==
    <<IF found.exactside[1] # NoSide THEN found.exactside[1] ELSE found.bestside[1],
      IF found.exactside[2] # NoSide THEN found.exactside[2] ELSE found.bestside[2]>>

\* Lines 864-871, for the sides chosen.
KeepSides(p, sides) ==
    /\ log' = IF sides = <<NoSide, NoSide>>
              THEN Append(log, [w |-> "side not found for portal", e |-> NULL, a |-> p])
              ELSE log
    /\ portals' = [portals EXCEPT ![p].sidefound = TRUE, ![p].sides = sides]

\* Lines 794-871, for the result of the search.
AfterSearch(p, found) ==
    /\ fatal' = found.fatal
    /\ IF found.fatal # ""
       THEN UNCHANGED <<log, portals>>
       ELSE KeepSides(p, ExactOverBest(found))

FindPortalSide(p) ==
    /\ Running
    /\ pc = "FindPortalSide"
    /\ pc' = "MarkVisibleSides_r"
    /\ IF portal_visible_contents(nodes[Side(portals[p].nodes, 0)].contents,
                                  nodes[Side(portals[p].nodes, 1)].contents) = {}
       THEN UNCHANGED <<log, portals, fatal>>
       ELSE AfterSearch(p, SearchSides(nodes, portals[p]))
    /\ UNCHANGED <<nodes, headnode, nodeportals, area, c_areas, portalareas,
                   areaportalnum, leafs, li, stack, starts, dareas, dareaportals>>
    /\ UNCHANGED buildvars
    /\ UNCHANGED toolvars

\* The sides a brush of the leaf on side j of a portal of plane 0 may have:
\* a side on the plane facing away from the leaf, alone or after a side on
\* another plane; a side on another plane alone; a bevel on the plane
\* before a side on another plane.
BrushSides(j) ==
    LET exact == [planenum |-> Other(j), bevel |-> FALSE]
        near == [planenum |-> 2, bevel |-> FALSE]
        nearer == [planenum |-> 4, bevel |-> FALSE]
    IN  { <<exact>>, <<near, exact>>, <<near>>, <<nearer>>,
          <<[exact EXCEPT !.bevel = TRUE], near>> }

Brushes(j) ==
    { [outside |-> g[1], inside |-> g[2], sides |-> sides] :
          g \in {<<TRUE, FALSE>>, <<FALSE, TRUE>>, <<TRUE, TRUE>>}, sides \in BrushSides(j) }
        \cup { [outside |-> FALSE, inside |-> FALSE,
                sides |-> <<[planenum |-> Other(j), bevel |-> FALSE]>>] }

\* The lists of n brushes of the leaf on side j.
RECURSIVE BrushLists(_, _)
BrushLists(j, n) ==
    IF n = 0 THEN {<<>>}
    ELSE { Append(list, brush) : list \in BrushLists(j, n - 1), brush \in Brushes(j) }

\* A node on plane 0 (node 1) whose children are two leafs, of contents c0
\* and c1, joined by one portal of that node.
SidesTree(c0, c1, brushes0, brushes1) ==
    [n \in 0..3 |->
        [is_leaf |-> n # 1, detail_separator |-> FALSE,
         children |-> IF n = 1 THEN <<2, 3>> ELSE <<NULL, NULL>>,
         parent |-> IF n \in {2, 3} THEN 1 ELSE NULL,
         plane |-> IF n = 1 THEN [axis |-> 0, dist |-> 0, sign |-> 1] ELSE NoPlane,
         planenum |-> IF n = 1 THEN 0 ELSE NULL,
         contents |-> IF n = 2 THEN c0 ELSE IF n = 3 THEN c1 ELSE {},
         original_brushes |-> IF n = 2 THEN brushes0 ELSE IF n = 3 THEN brushes1
                              ELSE <<>>]]

InitSides ==
    /\ \E c0 \in {{}, {Q2_CONTENTS_SOLID}}, n0 \in 0..MaxBrushes :
          \E n1 \in 0..(IF n0 = 0 THEN MaxBrushes ELSE MaxBrushes + 1 - n0) :
              \E brushes0 \in BrushLists(0, n0), brushes1 \in BrushLists(1, n1) :
                  nodes = SidesTree(c0, {Q2_CONTENTS_SOLID}, brushes0, brushes1)
    /\ headnode = 1
    /\ portals = <<[nodes |-> <<2, 3>>, next |-> <<0, 0>>,
                    plane |-> [axis |-> 0, dist |-> 0, sign |-> 1], onnode |-> 1,
                    winding |-> [lo |-> <<0, 0 - 880, 0 - 880>>, hi |-> <<0, 880, 880>>],
                    sidefound |-> FALSE, sides |-> <<NoSide, NoSide>>]>>
    /\ nodeportals = [n \in 0..3 |-> IF n \in {2, 3} THEN 1 ELSE 0]
    /\ tree_bounds = WorldBounds
    /\ mtp = [n \in 1..3 |-> IdleTask]
    /\ c_tinyportals = 0
    /\ clock = 0
    /\ splitcalls = <<>>
    /\ node_bounds = [n \in 0..3 |-> tree_bounds]
    /\ ctb = [n \in 1..3 |-> "idle"]
    /\ area = [n \in 0..3 |-> 0]
    /\ c_areas = 0
    /\ portalareas = [e \in 0..MaxEntities |-> <<0, 0>>]
    /\ areaportalnum = [e \in 0..MaxEntities |-> e]
    /\ pc = "FindPortalSide"
    /\ leafs = <<>>
    /\ li = 1
    /\ stack = <<>>
    /\ log = <<>>
    /\ starts = <<>>
    /\ dareas = <<>>
    /\ dareaportals = <<>>
    /\ fatal = ""
    /\ ToolsIdle

NextSides == \E p \in 1..Len(portals) : FindPortalSide(p)

SpecSides == InitSides /\ [][NextSides]_vars

(***************************************************************************)
(* MARK VISIBLE SIDES                                                      *)
(*                                                                         *)
(* A side of a brush has a source, a face of the map (a number) or NULL.   *)
(* stack holds the calls of MarkVisibleSides_r, [node, at, p], p being the *)
(* portal of the loop of line 894 (0 at its end).                          *)
(***************************************************************************)
\* The face of side ref = <<j, b, k>> of portal p, NULL without a side.
SourceOf(N, p, ref) ==
    IF ref = NoSide THEN NULL
    ELSE N[Side(p.nodes, ref[1])].original_brushes[ref[2]].sides[ref[3]].source

\* The faces that are the source of a side of one of the brushes.
SourcesOf(brushlist) ==
    UNION { { brushlist[b].sides[k].source : k \in DOMAIN brushlist[b].sides } :
                b \in DOMAIN brushlist } \ {NULL}

\* A brush that is in no leaf, with its face.
InteriorBrush ==
    [outside |-> TRUE, inside |-> FALSE,
     sides |-> <<[planenum |-> 2, bevel |-> FALSE, source |-> 6]>>]

\* The brushes handed to MarkVisibleSides: those of the leafs and the
\* brush that is in no leaf.
GivenBrushes(N) ==
    N[2].original_brushes \o N[4].original_brushes \o N[5].original_brushes
        \o <<InteriorBrush>>

\* No flag is cleared.
KeepFlags(flags, brushlist) == flags

\* Lines 919-925.
ClearFlags(flags, brushlist) == flags \ SourcesOf(brushlist)

\* Lines 900-904 for portal p.
SetFlags(flags, N, p) ==
    flags \cup ({SourceOf(N, p, p.sides[1]), SourceOf(N, p, p.sides[2])} \ {NULL})

\* p->next[!s] with s = (p->nodes[0] == node), lines 894-895.
NextVisible(p, node) ==
    Side(p.next, 1 - (IF Side(p.nodes, 0) = node THEN 1 ELSE 0))

\* Lines 914-928: the flags are cleared and the walk starts at the head node.
MarkVisibleSides ==
    /\ Running
    /\ pc = "MarkVisibleSides"
    /\ Len(visible_after) < 2
    /\ visible' = ClearFlags(visible, GivenBrushes(nodes))
    /\ stack' = <<[node |-> headnode, at |-> "enter", p |-> 0]>>
    /\ pc' = "MarkVisibleSides_r"
    /\ UNCHANGED <<nodes, headnode, portals, nodeportals, area, c_areas, portalareas,
                   areaportalnum, leafs, li, log, starts, dareas, dareaportals, fatal,
                   visible_after, runs, lightvars, dictvars, filevars>>
    /\ UNCHANGED buildvars

\* Lines 882-894: the children of a node are visited front first, a leaf
\* without contents is left at once, another leaf starts on its portals.
MVS_Enter ==
    /\ Running
    /\ pc = "MarkVisibleSides_r"
    /\ stack # <<>>
    /\ Top(stack).at = "enter"
    /\ stack' =
           IF ~nodes[Top(stack).node].is_leaf
           THEN Pop(stack) \o
                    <<[node |-> Side(nodes[Top(stack).node].children, 1),
                       at |-> "enter", p |-> 0],
                      [node |-> Side(nodes[Top(stack).node].children, 0),
                       at |-> "enter", p |-> 0]>>
           ELSE IF nodes[Top(stack).node].contents = {}
           THEN Pop(stack)
           ELSE Pop(stack) \o <<[node |-> Top(stack).node, at |-> "loop",
                                 p |-> nodeportals[Top(stack).node]]>>
    /\ UNCHANGED <<nodes, headnode, portals, nodeportals, area, c_areas, portalareas,
                   areaportalnum, pc, leafs, li, log, starts, dareas, dareaportals,
                   fatal>>
    /\ UNCHANGED buildvars
    /\ UNCHANGED toolvars

\* Lines 894-899: the end of the list, a portal at the edge of the world, a
\* portal whose sides are to be found, a portal whose sides were found.
MVS_Loop ==
    /\ Running
    /\ pc = "MarkVisibleSides_r"
    /\ stack # <<>>
    /\ Top(stack).at = "loop"
    /\ IF Top(stack).p = 0
       THEN stack' = Pop(stack) /\ pc' = pc
       ELSE IF portals[Top(stack).p].onnode = NULL
       THEN /\ stack' = Pop(stack) \o
                          <<[Top(stack) EXCEPT
                                !.p = NextVisible(portals[Top(stack).p], Top(stack).node)]>>
            /\ pc' = pc
       ELSE /\ stack' = Pop(stack) \o <<[Top(stack) EXCEPT !.at = "mark"]>>
            /\ pc' = IF portals[Top(stack).p].sidefound
                     THEN pc ELSE "FindPortalSide"
    /\ UNCHANGED <<nodes, headnode, portals, nodeportals, area, c_areas, portalareas,
                   areaportalnum, leafs, li, log, starts, dareas, dareaportals, fatal>>
    /\ UNCHANGED buildvars
    /\ UNCHANGED toolvars

\* Line 899: FindPortalSide on the portal of the loop.
MVS_FindPortalSide ==
    /\ stack # <<>>
    /\ Top(stack).at = "mark"
    /\ FindPortalSide(Top(stack).p)

\* Lines 900-904 and the step of the loop.
MVS_Mark ==
    /\ Running
    /\ pc = "MarkVisibleSides_r"
    /\ stack # <<>>
    /\ Top(stack).at = "mark"
    /\ visible' = SetFlags(visible, nodes, portals[Top(stack).p])
    /\ stack' = Pop(stack) \o
                    <<[Top(stack) EXCEPT
                          !.at = "loop",
                          !.p = NextVisible(portals[Top(stack).p], Top(stack).node)]>>
    /\ UNCHANGED <<nodes, headnode, portals, nodeportals, area, c_areas, portalareas,
                   areaportalnum, pc, leafs, li, log, starts, dareas, dareaportals,
                   fatal, visible_after, runs, lightvars, dictvars, filevars>>
    /\ UNCHANGED buildvars

\* Line 929: MarkVisibleSides returns.
MVS_Return ==
    /\ Running
    /\ pc = "MarkVisibleSides_r"
    /\ stack = <<>>
    /\ pc' = "MarkVisibleSides"
    /\ visible_after' = Append(visible_after, visible)
    /\ UNCHANGED <<nodes, headnode, portals, nodeportals, area, c_areas, portalareas,
                   areaportalnum, leafs, li, stack, log, starts, dareas, dareaportals,
                   fatal, visible, runs, lightvars, dictvars, filevars>>
    /\ UNCHANGED buildvars

\* The lists of brushes a leaf of the tree below may have.  Leaf 2 is in
\* front of plane 0; leaf 4 is behind plane 0 and in front of plane 6; leaf
\* 5 is behind both.  Faces 1 to 5 are the sources of their sides (face 3
\* being the source of a side in leaf 4 and of one in leaf 5).
VisibleBrushes(leaf) ==
    LET solid == [outside |-> TRUE, inside |-> FALSE]
        liquid == [outside |-> TRUE, inside |-> TRUE]
        inner == [outside |-> FALSE, inside |-> TRUE]
        side(planenum, source) ==
            [planenum |-> planenum, bevel |-> FALSE, source |-> source]
        with(brush, sides) ==
            [outside |-> brush.outside, inside |-> brush.inside, sides |-> sides]
    IN  CASE leaf = 2 ->
                 { <<>>, <<with(solid, <<side(1, 1)>>)>>,
                   <<with(liquid, <<side(2, 2)>>)>>,
                   <<with(solid, <<side(1, 1)>>), with(liquid, <<side(2, 2)>>)>> }
          [] leaf = 4 ->
                 { <<>>, <<with(solid, <<side(0, 3), side(7, 4)>>)>>,
                   <<with(solid, <<side(0, NULL),
                                   [side(7, 4) EXCEPT !.bevel = TRUE]>>)>> }
          [] OTHER ->
                 { <<>>, <<with(solid, <<side(0, 3), side(6, 5)>>)>>,
                   <<with(inner, <<side(6, 5)>>)>> }

\* Head node 1 on plane 0 with leaf 2 in front and node 3, on plane 6, with
\* the leafs 4 and 5 behind.
VisibleTree(c2, c4, c5, brushes2, brushes4, brushes5) ==
    [n \in 0..5 |->
        [is_leaf |-> n \notin {1, 3}, detail_separator |-> FALSE,
         children |-> IF n = 1 THEN <<2, 3>> ELSE IF n = 3 THEN <<4, 5>>
                      ELSE <<NULL, NULL>>,
         parent |-> IF n \in {2, 3} THEN 1 ELSE IF n \in {4, 5} THEN 3 ELSE NULL,
         plane |-> IF n = 3 THEN [axis |-> 1, dist |-> 0, sign |-> 1] ELSE NoPlane,
         planenum |-> IF n = 1 THEN 0 ELSE IF n = 3 THEN 6 ELSE NULL,
         contents |-> IF n = 2 THEN c2 ELSE IF n = 4 THEN c4 ELSE IF n = 5 THEN c5
                      ELSE {},
         original_brushes |-> IF n = 2 THEN brushes2 ELSE IF n = 4 THEN brushes4
                              ELSE IF n = 5 THEN brushes5 ELSE <<>>]]

\* The portals of the tree: 2-4 and 2-5 on node 1, 4-5 on node 3, and two
\* portals to the outside node; none has its sides found.
VisiblePortals ==
    LET portal(front, back, onnode, next) ==
            [nodes |-> <<front, back>>, next |-> next,
             plane |-> IF onnode = 3 THEN [axis |-> 1, dist |-> 0, sign |-> 1]
                       ELSE NoPlane,
             onnode |-> onnode,
             winding |-> [lo |-> <<0, 0, 0>>, hi |-> <<0, 0, 0>>],
             sidefound |-> FALSE, sides |-> <<NoSide, NoSide>>]
    IN  <<portal(2, 4, 1, <<2, 5>>), portal(2, 5, 1, <<4, 3>>),
          portal(4, 5, 3, <<0, 0>>), portal(2, outside_node, NULL, <<0, 5>>),
          portal(4, outside_node, NULL, <<3, 0>>)>>

\* The flags before the first call.
FlagsBefore == { {}, {1, 2, 3, 4, 5, 6, 7}, {3, 6}, {6, 7} }

InitVisible ==
    /\ \E c2 \in {{}, {Q2_CONTENTS_SOLID}}, c4 \in {{}, {Q2_CONTENTS_SOLID}},
          c5 \in {{}, {Q2_CONTENTS_SOLID}}, brushes2 \in VisibleBrushes(2),
          brushes4 \in VisibleBrushes(4), brushes5 \in VisibleBrushes(5) :
          nodes = VisibleTree(c2, c4, c5, brushes2, brushes4, brushes5)
    /\ headnode = 1
    /\ portals = VisiblePortals
    /\ nodeportals = <<4, 0, 1, 0, 1, 2>>
    /\ visible \in FlagsBefore
    /\ visible_after = <<>>
    /\ runs = <<>>
    /\ LightIdle
    /\ DictIdle
    /\ FileIdle
    /\ tree_bounds = WorldBounds
    /\ mtp = [n \in 1..5 |-> IdleTask]
    /\ c_tinyportals = 0
    /\ clock = 0
    /\ splitcalls = <<>>
    /\ node_bounds = [n \in 0..5 |-> tree_bounds]
    /\ ctb = [n \in 1..5 |-> "idle"]
    /\ area = [n \in 0..5 |-> 0]
    /\ c_areas = 0
    /\ portalareas = [e \in 0..MaxEntities |-> <<0, 0>>]
    /\ areaportalnum = [e \in 0..MaxEntities |-> e]
    /\ pc = "MarkVisibleSides"
    /\ leafs = <<>>
    /\ li = 1
    /\ stack = <<>>
    /\ log = <<>>
    /\ starts = <<>>
    /\ dareas = <<>>
    /\ dareaportals = <<>>
    /\ fatal = ""

NextVisibleSides ==
    \/ MarkVisibleSides
    \/ MVS_Enter
    \/ MVS_Loop
    \/ MVS_FindPortalSide
    \/ MVS_Mark
    \/ MVS_Return

SpecVisible == InitVisible /\ [][NextVisibleSides]_vars

(***************************************************************************)
(* LIGHT: LIGHT STYLES OF TARGETNAMES (light/entities.cc)                  *)
(***************************************************************************)
\* The state of qbsp, which light does not touch.
qbspvars == <<nodes, headnode, portals, nodeportals, pc, buildvars, floodvars,
              visvars, runs>>

QbspIdle ==
    /\ nodes = <<>>
    /\ headnode = NULL
    /\ portals = <<>>
    /\ nodeportals = <<>>
    /\ tree_bounds = WorldBounds
    /\ mtp = <<>>
    /\ c_tinyportals = 0
    /\ clock = 0
    /\ splitcalls = <<>>
    /\ node_bounds = <<>>
    /\ ctb = <<>>
    /\ area = <<>>
    /\ c_areas = 0
    /\ portalareas = <<>>
    /\ areaportalnum = <<>>
    /\ leafs = <<>>
    /\ li = 1
    /\ stack = <<>>
    /\ log = <<>>
    /\ starts = <<>>
    /\ dareas = <<>>
    /\ dareaportals = <<>>
    /\ VisibleIdle
    /\ runs = <<>>

MAX_SWITCHABLE_STYLES == 64

\* The calls of a run, the styles left below MAX_SWITCHABLE_STYLES at its
\* start, and the targetnames of the calls.
MaxCalls == 5
MaxStyles == 3
Targetnames == {"", "t1", "t2", "t3"}

\* Lines 95-99: the places of lightstyleForTargetname that hold targetname.
Assigned(list, targetname) ==
    { k \in DOMAIN list : list[k][1] = targetname /\ targetname # "" }

\* Line 102.
NewStylenum(start, list) == start + Len(list)

\* Line 105, with > in place of >=.
IsOverFull(newStylenum) == newStylenum > MAX_SWITCHABLE_STYLES

\* Line 105.
IsFull(newStylenum) == newStylenum >= MAX_SWITCHABLE_STYLES

\* Lines 92-117.
LightStyleForTargetname(targetname) ==
    /\ Running
    /\ pc = "LoadEntities"
    /\ Len(returned) < MaxCalls
    /\ IF Assigned(lightstyleForTargetname, targetname) # {}
       THEN /\ returned' =
                   Append(returned,
                          <<targetname,
                            lightstyleForTargetname[
                                CHOOSE k \in Assigned(lightstyleForTargetname, targetname) :
                                    \A other \in Assigned(lightstyleForTargetname, targetname) :
                                        k <= other][2]>>)
            /\ UNCHANGED <<lightstyleForTargetname, fatal>>
       ELSE IF IsFull(NewStylenum(compilerstyle_start, lightstyleForTargetname))
       THEN /\ fatal' = "Too many unique light targetnames"
            /\ UNCHANGED <<lightstyleForTargetname, returned>>
       ELSE /\ lightstyleForTargetname' =
                   Append(lightstyleForTargetname,
                          <<targetname,
                            NewStylenum(compilerstyle_start, lightstyleForTargetname)>>)
            /\ returned' =
                   Append(returned,
                          <<targetname,
                            NewStylenum(compilerstyle_start, lightstyleForTargetname)>>)
            /\ UNCHANGED fatal
    /\ UNCHANGED <<compilerstyle_start, debugmode, dictvars, filevars>>
    /\ UNCHANGED <<nodes, headnode, portals, nodeportals, pc, floodvars, visvars, runs>>
    /\ UNCHANGED buildvars

\* Lines 119-127.
TargetnameForLightStyle(style) ==
    IF \E k \in DOMAIN lightstyleForTargetname : lightstyleForTargetname[k][2] = style
    THEN lightstyleForTargetname[
             CHOOSE k \in DOMAIN lightstyleForTargetname :
                 /\ lightstyleForTargetname[k][2] = style
                 /\ \A other \in 1..(k - 1) : lightstyleForTargetname[other][2] # style][1]
    ELSE ""

InitStyles ==
    /\ QbspIdle
    /\ pc = "LoadEntities"
    /\ fatal = ""
    /\ lightstyleForTargetname = <<>>
    /\ compilerstyle_start \in
           {32} \cup ((MAX_SWITCHABLE_STYLES - MaxStyles)..MAX_SWITCHABLE_STYLES)
    /\ returned = <<>>
    /\ debugmode = "none"
    /\ DictIdle
    /\ FileIdle

NextStyles == \E targetname \in Targetnames : LightStyleForTargetname(targetname)

SpecStyles == InitStyles /\ [][NextStyles]_vars

(***************************************************************************)
(* LIGHT: DEBUG MODES (light/light.cc)                                     *)
(*                                                                         *)
(* returned holds <<option, debugmode>> for each option applied and for    *)
(* each reset; Error ends the run.                                         *)
(***************************************************************************)
\* The debug mode each option of lines 308-362 sets.
DebugOptions ==
    { <<"dirtdebug", "dirt">>, <<"bouncedebug", "bounce">>,
      <<"bouncelightsdebug", "bouncelights">>, <<"phongdebug", "phong">>,
      <<"phongdebug_obj", "phong_obj">>, <<"debugoccluded", "debugoccluded">>,
      <<"debugneighbours", "debugneighbours">>, <<"debugmottle", "mottle">> }

\* No mode is refused.
AnyDebugModeSet(mode) == FALSE

\* Lines 237-242: the condition of the Error.
CheckNoDebugModeSet(mode) == mode # "none"

\* The function of one of the options, lines 309-312 and alike.
SetDebugOption(option) ==
    /\ Running
    /\ pc = "light_settings"
    /\ Len(returned) < MaxCalls
    /\ IF CheckNoDebugModeSet(debugmode)
       THEN /\ fatal' = "Only one debug mode is allowed at a time"
            /\ UNCHANGED <<debugmode, returned>>
       ELSE /\ debugmode' = option[2]
            /\ returned' = Append(returned, <<option[1], option[2]>>)
            /\ UNCHANGED fatal
    /\ UNCHANGED <<lightstyleForTargetname, compilerstyle_start, dictvars, filevars>>
    /\ UNCHANGED <<nodes, headnode, portals, nodeportals, pc, floodvars, visvars, runs>>
    /\ UNCHANGED buildvars

\* Lines 453-462.
reset ==
    /\ Running
    /\ pc = "light_settings"
    /\ Len(returned) < MaxCalls
    /\ debugmode' = "none"
    /\ returned' = Append(returned, <<"reset", "none">>)
    /\ UNCHANGED <<lightstyleForTargetname, compilerstyle_start, dictvars, filevars,
                   fatal>>
    /\ UNCHANGED <<nodes, headnode, portals, nodeportals, pc, floodvars, visvars, runs>>
    /\ UNCHANGED buildvars

\* The settings after some earlier use: any debug mode may be set.
InitDebug ==
    /\ QbspIdle
    /\ pc = "light_settings"
    /\ fatal = ""
    /\ lightstyleForTargetname = <<>>
    /\ compilerstyle_start = 32
    /\ returned = <<>>
    /\ debugmode \in {"none"} \cup { option[2] : option \in DebugOptions }
    /\ DictIdle
    /\ FileIdle

NextDebug ==
    \/ \E option \in DebugOptions : SetDebugOption(option)
    \/ reset

SpecDebug == InitDebug /\ [][NextDebug]_vars

(***************************************************************************)
(* LIGHT: GET FILE SPACE (light/light.cc)                                  *)
(*                                                                         *)
(* Each thread calls GetFileSpace; gfs[t] is [at, asked, size, lightdata,  *)
(* colordata, deluxdata]: the argument size, size after line 517, and the  *)
(* pointers, each the range <<first, past>> of offsets the caller was      *)
(* given in its buffer, or NoRange for nullptr.                            *)
(* The statements under light_mutex are steps of their own, since lines    *)
(* 533 and 536 read file_p and lit_file_p without the mutex.  returned     *)
(* holds <<<<thread, size>>, <<lightdata, colordata, deluxdata>>>>.        *)
(***************************************************************************)
MaxThreads == 2
\* The calls of GetFileSpace of a run.
MaxSpaceCalls == 3

NoRange == <<>>

\* The values of size of the calls, and of the ends of the three buffers
\* (0 for a buffer that is not allocated).
Sizes == {1, 4, 6}
FileEnds == { <<12, 36, 36>>, <<12, 0, 0>>, <<0, 36, 0>>, <<8, 36, 0>> }

\* filebase.empty() and alike: a buffer is resized to its end, line 809.
BufferEmpty(end) == end = 0

\* Lines 515-517.
RoundUp4(size) == IF size % 4 # 0 THEN size + (4 - (size % 4)) ELSE size

\* The mutex is taken whoever holds it.
MutexIgnored(t) == TRUE

\* light_mutex.lock() returns, line 500.
MutexFree(t) == light_mutex = 0

IdleCall == [at |-> "idle", asked |-> 0, size |-> 0, lightdata |-> NoRange, colordata |-> NoRange,
             deluxdata |-> NoRange]

\* The number of calls made so far.
CallsMade == Len(returned) + Cardinality({ t \in DOMAIN gfs : gfs[t].at # "idle" })

\* Lines 500-523: the mutex is taken, the three pointers are set, size is
\* rounded and file_p moves.
GFS_Lock(t, size) ==
    /\ Running
    /\ pc = "GetFileSpace"
    /\ gfs[t].at = "idle"
    /\ CallsMade < MaxSpaceCalls
    /\ MutexFree(t)
    /\ light_mutex' = t
    /\ gfs' = [gfs EXCEPT ![t] =
                  [at |-> "lit", asked |-> size, size |-> RoundUp4(size),
                   lightdata |-> IF BufferEmpty(file_ends[1]) THEN NoRange
                                 ELSE <<file_p, file_p + RoundUp4(size)>>,
                   colordata |-> IF BufferEmpty(file_ends[2]) THEN NoRange
                                 ELSE <<lit_file_p, lit_file_p + 3 * RoundUp4(size)>>,
                   deluxdata |-> IF BufferEmpty(file_ends[3]) THEN NoRange
                                 ELSE <<lux_file_p, lux_file_p + 3 * RoundUp4(size)>>]]
    /\ file_p' = IF BufferEmpty(file_ends[1]) THEN file_p ELSE file_p + RoundUp4(size)
    /\ UNCHANGED <<lit_file_p, lux_file_p, file_ends, fatal>>
    /\ UNCHANGED <<lightstyleForTargetname, compilerstyle_start, returned, debugmode,
                   dictvars>>
    /\ UNCHANGED <<nodes, headnode, portals, nodeportals, pc, floodvars, visvars, runs>>
    /\ UNCHANGED buildvars

\* Lines 524-526.
GFS_Lit(t) ==
    /\ Running
    /\ pc = "GetFileSpace"
    /\ gfs[t].at = "lit"
    /\ lit_file_p' = IF BufferEmpty(file_ends[2]) THEN lit_file_p
                     ELSE lit_file_p + 3 * gfs[t].size
    /\ gfs' = [gfs EXCEPT ![t].at = "lux"]
    /\ UNCHANGED <<file_p, lux_file_p, file_ends, light_mutex, fatal>>
    /\ UNCHANGED <<lightstyleForTargetname, compilerstyle_start, returned, debugmode,
                   dictvars>>
    /\ UNCHANGED <<nodes, headnode, portals, nodeportals, pc, floodvars, visvars, runs>>
    /\ UNCHANGED buildvars

\* Lines 527-531: lux_file_p moves and the mutex is released.
GFS_Unlock(t) ==
    /\ Running
    /\ pc = "GetFileSpace"
    /\ gfs[t].at = "lux"
    /\ lux_file_p' = IF BufferEmpty(file_ends[3]) THEN lux_file_p
                     ELSE lux_file_p + 3 * gfs[t].size
    /\ light_mutex' = 0
    /\ gfs' = [gfs EXCEPT ![t].at = "file_end"]
    /\ UNCHANGED <<file_p, lit_file_p, file_ends, fatal>>
    /\ UNCHANGED <<lightstyleForTargetname, compilerstyle_start, returned, debugmode,
                   dictvars>>
    /\ UNCHANGED <<nodes, headnode, portals, nodeportals, pc, floodvars, visvars, runs>>
    /\ UNCHANGED buildvars

\* Lines 533-534: file_p is read, whatever thread moved it last.
GFS_CheckFile(t) ==
    /\ Running
    /\ pc = "GetFileSpace"
    /\ gfs[t].at = "file_end"
    /\ IF file_p > file_ends[1]
       THEN fatal' = "overrun" /\ gfs' = gfs
       ELSE fatal' = fatal /\ gfs' = [gfs EXCEPT ![t].at = "lit_file_end"]
    /\ UNCHANGED <<file_p, lit_file_p, lux_file_p, file_ends, light_mutex>>
    /\ UNCHANGED <<lightstyleForTargetname, compilerstyle_start, returned, debugmode,
                   dictvars>>
    /\ UNCHANGED <<nodes, headnode, portals, nodeportals, pc, floodvars, visvars, runs>>
    /\ UNCHANGED buildvars

\* Lines 536-538: lit_file_p is read, and the call returns.
GFS_CheckLit(t) ==
    /\ Running
    /\ pc = "GetFileSpace"
    /\ gfs[t].at = "lit_file_end"
    /\ IF lit_file_p > file_ends[2]
       THEN fatal' = "overrun" /\ UNCHANGED <<gfs, returned>>
       ELSE /\ fatal' = fatal
            /\ gfs' = [gfs EXCEPT ![t] = IdleCall]
            /\ returned' = Append(returned,
                                  <<<<t, gfs[t].asked>>,
                                    <<gfs[t].lightdata, gfs[t].colordata,
                                      gfs[t].deluxdata>>>>)
    /\ UNCHANGED <<file_p, lit_file_p, lux_file_p, file_ends, light_mutex>>
    /\ UNCHANGED <<lightstyleForTargetname, compilerstyle_start, debugmode, dictvars>>
    /\ UNCHANGED <<nodes, headnode, portals, nodeportals, pc, floodvars, visvars, runs>>
    /\ UNCHANGED buildvars

\* Lines 803-825: the buffers that are written are allocated and empty.
InitFileSpace ==
    /\ QbspIdle
    /\ pc = "GetFileSpace"
    /\ fatal = ""
    /\ LightIdle
    /\ DictIdle
    /\ file_p = 0
    /\ lit_file_p = 0
    /\ lux_file_p = 0
    /\ file_ends \in FileEnds
    /\ light_mutex = 0
    /\ gfs = [t \in 1..MaxThreads |-> IdleCall]

NextFileSpace ==
    \/ \E t \in DOMAIN gfs : \E size \in Sizes : GFS_Lock(t, size)
    \/ \E t \in DOMAIN gfs : GFS_Lit(t)
    \/ \E t \in DOMAIN gfs : GFS_Unlock(t)
    \/ \E t \in DOMAIN gfs : GFS_CheckFile(t)
    \/ \E t \in DOMAIN gfs : GFS_CheckLit(t)

SpecFileSpace == InitFileSpace /\ [][NextFileSpace]_vars

(***************************************************************************)
(* ENTITY DICTIONARY (common/entdata.cc)                                   *)
(*                                                                         *)
(* A string is a sequence of characters; keyvalues is the vector of pairs  *)
(* <<key, value>>; an iterator is a position of the vector, end() being    *)
(* the position after the last.  dictcalls holds each call made with its   *)
(* arguments; for a pair read by parse it holds <<"parse", key token,      *)
(* key stored>>.                                                           *)
(***************************************************************************)
MaxDictCalls == 4
MaxPairs == 2
MaxKeyLen == 3

DictKeys == { <<"a">>, <<"b">> }
DictValues == { <<"1">>, <<"2">> }

\* entdict_t::find, lines 118-128: the first position holding key, or end().
find(kv, key) ==
    IF \E k \in 1..Len(kv) : kv[k][1] = key
    THEN CHOOSE k \in 1..Len(kv) : kv[k][1] = key /\ \A j \in 1..(k - 1) : kv[j][1] # key
    ELSE Len(kv) + 1

\* std::vector::erase of the element at position it.
erase(kv, it) == SubSeq(kv, 1, it - 1) \o SubSeq(kv, it + 1, Len(kv))

\* entdict_t::get, lines 35-43.
get(kv, key) == IF find(kv, key) # Len(kv) + 1 THEN kv[find(kv, key)][2] ELSE <<>>

\* entdict_t::set, lines 88-99.
set(kv, key, value) ==
    IF find(kv, key) # Len(kv) + 1
    THEN [kv EXCEPT ![find(kv, key)] = <<key, value>>]
    ELSE Append(kv, <<key, value>>)

\* entdict_t::remove, lines 101-106.
remove(kv, key) ==
    IF find(kv, key) # Len(kv) + 1 THEN erase(kv, find(kv, key)) ELSE kv

\* entdict_t::rename, lines 108-116.
rename(kv, from, to) ==
    IF find(kv, from) # Len(kv) + 1
    THEN Append(erase(kv, find(kv, from)), <<to, kv[find(kv, from)][2]>>)
    ELSE kv

entdict_set(key, value) ==
    /\ pc = "entdict_t"
    /\ Len(dictcalls) < MaxDictCalls
    /\ keyvalues' = set(keyvalues, key, value)
    /\ dictcalls' = Append(dictcalls, <<"set", key, value>>)
    /\ UNCHANGED <<token, keystr>>
    /\ UNCHANGED <<qbspvars, fatal, lightvars, filevars>>

entdict_remove(key) ==
    /\ pc = "entdict_t"
    /\ Len(dictcalls) < MaxDictCalls
    /\ keyvalues' = remove(keyvalues, key)
    /\ dictcalls' = Append(dictcalls, <<"remove", key>>)
    /\ UNCHANGED <<token, keystr>>
    /\ UNCHANGED <<qbspvars, fatal, lightvars, filevars>>

entdict_rename(from, to) ==
    /\ pc = "entdict_t"
    /\ Len(dictcalls) < MaxDictCalls
    /\ keyvalues' = rename(keyvalues, from, to)
    /\ dictcalls' = Append(dictcalls, <<"rename", from, to>>)
    /\ UNCHANGED <<token, keystr>>
    /\ UNCHANGED <<qbspvars, fatal, lightvars, filevars>>

\* A default-constructed entdict_t, line 31.
InitDict ==
    /\ QbspIdle
    /\ pc = "entdict_t"
    /\ fatal = ""
    /\ LightIdle
    /\ DictIdle
    /\ FileIdle

NextDict ==
    \/ \E key \in DictKeys, value \in DictValues : entdict_set(key, value)
    \/ \E key \in DictKeys : entdict_remove(key)
    \/ \E from \in DictKeys, to \in DictKeys : entdict_rename(from, to)

SpecDict == InitDict /\ [][NextDict]_vars

(***************************************************************************)
(* entdict_t::parse: the loop of lines 156-182 over the pairs of an        *)
(* entity.  std::string::front() and back() of an empty string have no     *)
(* defined result: the build either stops the program there or hands a     *)
(* character that is no whitespace to std::isspace.                        *)
(***************************************************************************)
Chars == {"a", "b", " "}
isspace(ch) == ch = " "

RECURSIVE Strings(_)
Strings(n) ==
    IF n = 0 THEN { <<>> }
    ELSE Strings(n - 1)
             \cup { Append(str, ch) : str \in {t \in Strings(n - 1) : Len(t) = n - 1},
                                      ch \in Chars }

\* The key tokens of the entity: quoted strings of one character or more.
KeyTokens == Strings(MaxKeyLen) \ { <<>> }

\* keystr.erase(keystr.begin()) and keystr.erase(keystr.cbegin()).
EraseBegin(str) == Tail(str)

\* What front() or back() of the empty keystr leads to.
EmptyRead(next) ==
    \/ /\ fatal' = "read of an empty string"
       /\ UNCHANGED pc
    \/ /\ pc' = next
       /\ UNCHANGED fatal

\* Lines 158-171: the key and the value of the next pair.
parse_KeyValue(key, value) ==
    /\ fatal = ""
    /\ pc = "parse_token"
    /\ Len(dictcalls) < MaxPairs
    /\ token' = <<key, value>>
    /\ keystr' = key
    /\ pc' = "trim_start"
    /\ UNCHANGED <<keyvalues, dictcalls, fatal>>
    /\ UNCHANGED <<nodes, headnode, portals, nodeportals, buildvars, floodvars>>
    /\ UNCHANGED <<visvars, runs, lightvars, filevars>>

\* Lines 174-176: one test of the first loop, and its body.
parse_TrimStart ==
    /\ fatal = ""
    /\ pc = "trim_start"
    /\ IF keystr = <<>>
       THEN EmptyRead("trim_end") /\ UNCHANGED keystr
       ELSE IF isspace(Head(keystr))
       THEN keystr' = EraseBegin(keystr) /\ UNCHANGED <<pc, fatal>>
       ELSE pc' = "trim_end" /\ UNCHANGED <<keystr, fatal>>
    /\ UNCHANGED <<keyvalues, dictcalls, token>>
    /\ UNCHANGED <<nodes, headnode, portals, nodeportals, buildvars, floodvars>>
    /\ UNCHANGED <<visvars, runs, lightvars, filevars>>

\* Lines 177-179: one test of the second loop, and its body.
parse_TrimEnd ==
    /\ fatal = ""
    /\ pc = "trim_end"
    /\ IF keystr = <<>>
       THEN EmptyRead("set") /\ UNCHANGED keystr
       ELSE IF isspace(keystr[Len(keystr)])
       THEN keystr' = EraseBegin(keystr) /\ UNCHANGED <<pc, fatal>>
       ELSE pc' = "set" /\ UNCHANGED <<keystr, fatal>>
    /\ UNCHANGED <<keyvalues, dictcalls, token>>
    /\ UNCHANGED <<nodes, headnode, portals, nodeportals, buildvars, floodvars>>
    /\ UNCHANGED <<visvars, runs, lightvars, filevars>>

\* Line 181.
parse_Set ==
    /\ fatal = ""
    /\ pc = "set"
    /\ keyvalues' = set(keyvalues, keystr, token[2])
    /\ dictcalls' = Append(dictcalls, <<"parse", token[1], keystr>>)
    /\ pc' = "parse_token"
    /\ UNCHANGED <<token, keystr, fatal>>
    /\ UNCHANGED <<nodes, headnode, portals, nodeportals, buildvars, floodvars>>
    /\ UNCHANGED <<visvars, runs, lightvars, filevars>>

\* parse after the opening brace, lines 150-153, on an empty entdict_t.
InitParse ==
    /\ QbspIdle
    /\ pc = "parse_token"
    /\ fatal = ""
    /\ LightIdle
    /\ DictIdle
    /\ FileIdle

NextParse ==
    \/ \E key \in KeyTokens, value \in DictValues : parse_KeyValue(key, value)
    \/ parse_TrimStart
    \/ parse_TrimEnd
    \/ parse_Set

SpecParse == InitParse /\ [][NextParse]_vars

(***************************************************************************)
(* Properties of the portal sides.                                         *)
(***************************************************************************)
\* The visible contents of the transition across portal p.
Transition(p) ==
    portal_visible_contents(nodes[Side(portals[p].nodes, 0)].contents,
                            nodes[Side(portals[p].nodes, 1)].contents)

\* The brushes of the node on side j of p.
BrushesOf(p, j) == nodes[Side(portals[p].nodes, j)].original_brushes

\* Brush b of the node on side j may generate a face on side s of p.
MayGenerate(p, j, b, s) ==
    /\ Transition(p) # {}
    /\ \/ BrushesOf(p, j)[b].outside /\ s = Other(j)
       \/ BrushesOf(p, j)[b].inside /\ s = j

\* The sides of brush b of the node on side j that are no bevels and lie on
\* the plane of p, facing away from the node.
ExactSides(p, j, b) ==
    { k \in DOMAIN BrushesOf(p, j)[b].sides :
          /\ ~BrushesOf(p, j)[b].sides[k].bevel
          /\ BrushesOf(p, j)[b].sides[k].planenum = nodes[portals[p].onnode].planenum + Other(j) }

\* The brushes of the node on side j with such a side that may generate a
\* face on side s.
ExactBrushes(p, j, s) ==
    { b \in DOMAIN BrushesOf(p, j) : MayGenerate(p, j, b, s) /\ ExactSides(p, j, b) # {} }

FirstOf(S) == CHOOSE k \in S : \A other \in S : k <= other
LastOf(S) == CHOOSE k \in S : \A other \in S : k >= other

ExactRef(p, j, b) == <<j, b, FirstOf(ExactSides(p, j, b))>>

Resolved(p) == pc = "MarkVisibleSides_r" /\ fatal = ""

Candidates(p, s) ==
    { ref \in UNION { UNION { { <<j, b, k>> : k \in DOMAIN BrushesOf(p, j)[b].sides } :
                                  b \in DOMAIN BrushesOf(p, j) } : j \in {0, 1} } :
          /\ MayGenerate(p, ref[1], ref[2], s)
          /\ ~BrushesOf(p, ref[1])[ref[2]].sides[ref[3]].bevel
          /\ PositivePlanenum(BrushesOf(p, ref[1])[ref[2]].sides[ref[3]].planenum)
                 # nodes[portals[p].onnode].planenum
          /\ PlaneDot(nodes[portals[p].onnode].planenum,
                      BrushesOf(p, ref[1])[ref[2]].sides[ref[3]].planenum) > 0 }

DotOf(p, ref) ==
    PlaneDot(nodes[portals[p].onnode].planenum,
             BrushesOf(p, ref[1])[ref[2]].sides[ref[3]].planenum)

\* The candidates of s with the largest dot product that no later brush of
\* the same node equals.
BestCandidates(p, s) ==
    { ref \in Candidates(p, s) :
          \A other \in Candidates(p, s) :
              /\ DotOf(p, other) <= DotOf(p, ref)
              /\ (DotOf(p, other) = DotOf(p, ref) /\ other[1] = ref[1])
                     => other[2] <= ref[2] }

NoExactMatch(p, s) == ExactBrushes(p, 0, s) = {} /\ ExactBrushes(p, 1, s) = {}

\* C19: for each side of the portal by itself, when no brush has an exact
\* match for that side, the side stored is a candidate of that side with the
\* largest dot product, the later brush of a node winning ties, whatever
\* was seen for the other side; it is null only without any candidate.
C19_BestDotPerSide ==
    \A p \in DOMAIN portals : \A s \in {0, 1} :
        (Resolved(p) /\ Transition(p) # {} /\ NoExactMatch(p, s)) =>
            IF Candidates(p, s) = {}
            THEN Side(portals[p].sides, s) = NoSide
            ELSE Side(portals[p].sides, s) \in BestCandidates(p, s)

\* FindPortalSide has returned from its call on p.
Returned(p) == pc = "MarkVisibleSides_r"

SideWarnings(p) ==
    { i \in DOMAIN log : log[i] = [w |-> "side not found for portal", e |-> NULL, a |-> p] }

\* C20: whenever FindPortalSide ends with no side chosen on either side of
\* the portal, the empty content transition included, one warning was
\* printed, sides[0] and sides[1] are null, and there is no fatal error.
C20_NoSideIsWarned ==
    \A p \in DOMAIN portals :
        (Returned(p) /\ portals[p].sides = <<NoSide, NoSide>>) =>
            /\ Cardinality(SideWarnings(p)) = 1
            /\ fatal = ""

(***************************************************************************)
(* Properties of the visible flags.                                        *)
(***************************************************************************)
\* Portal p has a non-null onnode and a leaf with contents on one side.
ReachedPortal(p) ==
    /\ portals[p].onnode # NULL
    /\ \E j \in {0, 1} :
           /\ nodes[Side(portals[p].nodes, j)].is_leaf
           /\ nodes[Side(portals[p].nodes, j)].contents # {}

\* The faces that are the source of a side stored in such a portal.
ReachedFaces ==
    { SourceOf(nodes, portals[p], Side(portals[p].sides, i)) :
          p \in { q \in DOMAIN portals : ReachedPortal(q) }, i \in {0, 1} } \ {NULL}

AfterMarkVisibleSides == pc = "MarkVisibleSides" /\ visible_after # <<>> /\ fatal = ""

Joining(list, a, b) == Cardinality({ k \in DOMAIN list : list[k].nodes = <<a, b>> })

C23_StylesPerTargetname ==
    /\ \A i \in DOMAIN returned, j \in DOMAIN returned :
           /\ (returned[i][1] = returned[j][1] /\ returned[i][1] # "")
                  => returned[i][2] = returned[j][2]
           /\ returned[i][1] # returned[j][1] => returned[i][2] # returned[j][2]
           /\ (i < j /\ returned[j][1] = "") => returned[i][2] # returned[j][2]
    /\ \A i \in DOMAIN returned :
           /\ returned[i][2] >= compilerstyle_start
           /\ returned[i][2] < 64
           /\ TargetnameForLightStyle(returned[i][2]) = returned[i][1]
    /\ { lightstyleForTargetname[k][2] : k \in DOMAIN lightstyleForTargetname }
           = { returned[i][2] : i \in DOMAIN returned }
    /\ Len(lightstyleForTargetname)
           = Cardinality({ returned[i][2] : i \in DOMAIN returned })
    /\ fatal # "" => compilerstyle_start + Len(lightstyleForTargetname) >= 64

C23_Witness ==
    /\ fatal # ""
    /\ compilerstyle_start = 61
    /\ Len(returned) = 4
    /\ \E i \in DOMAIN returned, j \in DOMAIN returned :
           i < j /\ returned[i] = returned[j] /\ returned[i][1] # ""
    /\ \E i \in DOMAIN returned : returned[i] = <<"", 63>>

(***************************************************************************)
(* Properties of the debug modes.                                          *)
(***************************************************************************)
\* The calls since the last reset.
SinceReset ==
    LET resets == { i \in DOMAIN returned : returned[i][1] = "reset" }
    IN  IF resets = {} THEN <<>>
        ELSE SubSeq(returned, (CHOOSE i \in resets : \A j \in resets : j <= i) + 1,
                    Len(returned))

WasReset == \E i \in DOMAIN returned : returned[i][1] = "reset"

\* C24: after reset debugmode is none; the first debug option after it sets
\* debugmode to its mode, and a later one is an Error that leaves debugmode
\* as it is.
C24_DebugStep ==
    /\ (returned' # returned /\ Top(returned')[1] = "reset") => debugmode' = "none"
    /\ (WasReset /\ returned' # returned /\ Top(returned')[1] # "reset") =>
           /\ SinceReset = <<>>
           /\ debugmode' = Top(returned')[2]
           /\ <<Top(returned')[1], debugmode'>> \in DebugOptions
           /\ fatal' = ""
    /\ (WasReset /\ fatal = "" /\ fatal' # "") =>
           /\ Len(SinceReset) = 1
           /\ debugmode' = debugmode
           /\ debugmode = SinceReset[1][2]
    /\ (WasReset /\ SinceReset # <<>> /\ fatal = "" /\ debugmode' # debugmode)
           => debugmode' = "none"

C24_OneDebugMode == [][C24_DebugStep]_vars

C24_Witness ==
    /\ fatal # ""
    /\ Len(returned) = 3
    /\ returned[1] = <<"phongdebug", "phong">>
    /\ returned[2] = <<"reset", "none">>
    /\ returned[3] = <<"dirtdebug", "dirt">>
    /\ debugmode = "dirt"

(***************************************************************************)
(* Properties of GetFileSpace.                                             *)
(***************************************************************************)
\* The calls that were given their pointers: <<call, size, pointers>>.
SpaceGiven ==
    { <<<<"returned", i>>, returned[i][1][2], returned[i][2]>> : i \in DOMAIN returned }
        \cup { <<<<"running", t>>, gfs[t].asked,
                 <<gfs[t].lightdata, gfs[t].colordata, gfs[t].deluxdata>>>> :
                   t \in { u \in DOMAIN gfs : gfs[u].at # "idle" } }

Apart(r1, r2) == r1 = NoRange \/ r2 = NoRange \/ r1[2] <= r2[1] \/ r2[2] <= r1[1]

\* The range holds size bytes rounded up to a multiple of 4, times factor.
Holds(range, size, factor) ==
    range # NoRange =>
        \E bytes \in size..(size + 3) :
            bytes % 4 = 0 /\ range[2] - range[1] = factor * bytes

\* C25: in every interleaving of the calls of GetFileSpace, the ranges two
\* calls were given in a buffer do not overlap; a range holds size rounded
\* up to a multiple of 4 in the lightmap buffer and 3 times that in the lit
\* and lux buffers; file_p is a multiple of 4 and lit_file_p and lux_file_p
\* are multiples of 12; no call returns that moved file_p past file_end or
\* lit_file_p past lit_file_end, and the error is 'overrun'.
C25_FileSpaceThreadSafe ==
    /\ \A a \in SpaceGiven, b \in SpaceGiven :
           a[1] # b[1] => \A k \in 1..3 : Apart(a[3][k], b[3][k])
    /\ \A a \in SpaceGiven :
           /\ Holds(a[3][1], a[2], 1)
           /\ Holds(a[3][2], a[2], 3)
           /\ Holds(a[3][3], a[2], 3)
           /\ \A k \in 1..3 : a[3][k] = NoRange <=> BufferEmpty(file_ends[k])
    /\ file_p % 4 = 0
    /\ lit_file_p % 12 = 0
    /\ lux_file_p % 12 = 0
    /\ \A i \in DOMAIN returned :
           /\ returned[i][2][1] # NoRange => returned[i][2][1][2] <= file_ends[1]
           /\ returned[i][2][2] # NoRange => returned[i][2][2][2] <= file_ends[2]
    /\ fatal # "" =>
           /\ fatal = "overrun"
           /\ file_p > file_ends[1] \/ lit_file_p > file_ends[2]

C25_Witness ==
    /\ fatal = "overrun"
    /\ file_ends = <<12, 36, 36>>
    /\ \E i \in DOMAIN returned, j \in DOMAIN returned :
           /\ returned[i][1][1] # returned[j][1][1]
           /\ returned[i][1][2] = 1
           /\ returned[j][2][2] = <<12, 24>>
    /\ \E t \in DOMAIN gfs : gfs[t].at = "file_end" /\ gfs[t].lightdata = <<8, 16>>

(***************************************************************************)
(* Properties of the area flood.                                           *)
(***************************************************************************)
TreeLeafs == {n \in DOMAIN nodes : nodes[n].is_leaf /\ n # outside_node}
PortalIds == 1..Len(portals)

HasAreaportalContents(n) == Q2_CONTENTS_AREAPORTAL \in nodes[n].contents
IsRoom(n) == ~is_any_solid(nodes[n].contents) /\ ~HasAreaportalContents(n)

\* A portal both sides of which are neither solid nor area-portal content.
RoomPortal(p) == IsRoom(Side(portals[p].nodes, 0)) /\ IsRoom(Side(portals[p].nodes, 1))

\* A portal the flood may cross or touch an area portal through.
OpenPortal(p) ==
    /\ ~is_any_solid(nodes[Side(portals[p].nodes, 0)].contents)
    /\ ~is_any_solid(nodes[Side(portals[p].nodes, 1)].contents)

Joined(p, a, b) == portals[p].nodes = <<a, b>> \/ portals[p].nodes = <<b, a>>

RoomNeighbours(S) ==
    S \cup {n \in TreeLeafs : \E m \in S, p \in PortalIds : RoomPortal(p) /\ Joined(p, m, n)}

\* The leafs joined to a leaf of S by a path of room portals.
RECURSIVE RoomClosure(_)
RoomClosure(S) == IF RoomNeighbours(S) = S THEN S ELSE RoomClosure(RoomNeighbours(S))

AfterFindAreas == Running /\ pc = "SetAreaPortalAreas_r" /\ stack = <<[node |-> headnode]>>
AfterFloodAreas == Running /\ pc \in {"EmitAreaPortals", "done"}
AfterEmitAreaPortals == Running /\ pc = "done"

\* The leafs of entity e that the flood treats as area-portal content.
AreaportalLeafsOf(e) ==
    {n \in TreeLeafs : FloodTreatsAsAreaportal(n) /\ AreanodeEntityForLeaf(n) = e}

\* The room leafs that border an area-portal leaf of entity e.
RoomsTouching(e) ==
    {n \in TreeLeafs : IsRoom(n) /\ \E x \in AreaportalLeafsOf(e), p \in PortalIds :
                                        OpenPortal(p) /\ Joined(p, n, x)}

Rooms == {n \in TreeLeafs : IsRoom(n)}
RoomComponents == {RoomClosure({n}) : n \in Rooms}

\* Two non-solid rooms whose only connection goes through the area-portal
\* leafs of exactly one area-portal entity.
TwoRoomMap ==
    /\ \A n \in TreeLeafs : ~is_any_solid(nodes[n].contents)
    /\ Cardinality(RoomComponents) = 2
    /\ \E e \in Entities :
          /\ \A n \in TreeLeafs : HasAreaportalContents(n) => AreanodeEntityForLeaf(n) = e
          /\ \A c \in RoomComponents : c \cap RoomsTouching(e) # {}

TheAreaportalEntity ==
    CHOOSE e \in Entities : \A n \in TreeLeafs :
        HasAreaportalContents(n) => AreanodeEntityForLeaf(n) = e

\* C1: on a map of two non-solid rooms joined only through the area-portal
\* leafs of one entity, FloodAreas ends with map.c_areas = 2 and the entity's
\* portalareas equal to the set {1, 2}.
C1_TwoRoomsTwoAreas ==
    (AfterFloodAreas /\ TwoRoomMap) =>
        /\ c_areas = 2
        /\ {Side(portalareas[TheAreaportalEntity], 0),
            Side(portalareas[TheAreaportalEntity], 1)} = {1, 2}

C1_Witness ==
    /\ AfterFloodAreas /\ TwoRoomMap
    /\ Cardinality(AreaportalLeafsOf(TheAreaportalEntity)) = 2
    /\ \E c \in RoomComponents : Cardinality(c) = 2

\* The areas whose flood reaches an area-portal leaf of entity e.
AreasTouching(e) == {area[n] : n \in {m \in RoomsTouching(e) : area[m] # 0}}

Min(S) == CHOOSE x \in S : \A y \in S : x <= y
Max(S) == CHOOSE x \in S : \A y \in S : x >= y

WarningsFor(w, e, a) ==
    Cardinality({k \in 1..Len(log) : log[k] = [w |-> w, e |-> e, a |-> a]})

\* C2: an entity reached by floods of three distinct areas keeps the first
\* two ids in discovery order, stores the third nowhere, and gets exactly one
\* "touches > 2 areas" warning for the third area.
C2_ThirdAreaWarnedOnce ==
    AfterFindAreas =>
        \A e \in Entities :
            Cardinality(AreasTouching(e)) = 3 =>
                LET third == Max(AreasTouching(e))
                    first == Min(AreasTouching(e))
                    second == Min(AreasTouching(e) \ {first})
                IN  /\ portalareas[e] = <<first, second>>
                    /\ third \notin {Side(portalareas[e], 0), Side(portalareas[e], 1)}
                    /\ WarningsFor("touches > 2 areas", e, third) = 1

\* C3: after FindAreas an area is a maximal connected region: leafs joined by
\* a room portal have the same area id, and two leafs have the same non-zero
\* area id only if a path of room portals joins them.
C3_AreaIsMaximalRegion ==
    AfterFindAreas =>
        /\ \A p \in PortalIds :
              RoomPortal(p) => area[Side(portals[p].nodes, 0)] = area[Side(portals[p].nodes, 1)]
        /\ \A a, b \in TreeLeafs :
              (a # b /\ area[a] # 0 /\ area[a] = area[b]) => b \in RoomClosure({a})

C3_Witness ==
    /\ AfterFindAreas
    /\ \E p \in PortalIds : RoomPortal(p) /\ area[Side(portals[p].nodes, 0)] # 0
    /\ \E a, b \in Rooms : area[a] # 0 /\ area[b] # 0 /\ area[a] # area[b]
    /\ \E p \in PortalIds : ~OpenPortal(p) /\ outside_node \notin {Side(portals[p].nodes, 0),
                                                                 Side(portals[p].nodes, 1)}

\* C4: once a node's area is non-zero no later step changes it, map.c_areas
\* only increases, and each value of map.c_areas starts exactly one flood:
\* a flood starts exactly when map.c_areas goes up by one.
C4_AreaStep ==
    /\ \A n \in DOMAIN area : area[n] # 0 => area'[n] = area[n]
    /\ c_areas' >= c_areas
    /\ (pc' = "FindAreas" /\ stack = <<>> /\ stack' # <<>>) <=> (c_areas' = c_areas + 1)
    /\ c_areas' # c_areas => c_areas' = c_areas + 1
    /\ \A i, j \in 1..Len(starts') : i < j => starts'[i] < starts'[j]

C5_AreaportalLeafResolved ==
    AfterFloodAreas =>
        \A n \in TreeLeafs :
            (FloodTreatsAsAreaportal(n) /\ AreanodeEntityForLeaf(n) # NULL) =>
                area[n] = Side(portalareas[AreanodeEntityForLeaf(n)], 0)

\* C6: an entity that recorded fewer than two areas gets a warning in
\* SetAreaPortalAreas_r and no fatal error; its area-portal leafs still get
\* area = portalareas[0], and FloodAreas runs to completion.
C6_InertAreaportalWarned ==
    /\ fatal = ""
    /\ AfterFloodAreas =>
        \A e \in Entities :
            (Side(portalareas[e], 1) = 0 /\ AreaportalLeafsOf(e) # {}) =>
                /\ \E n \in AreaportalLeafsOf(e) : WarningsFor("doesn't touch two areas", e, n) = 1
                /\ \A n \in AreaportalLeafsOf(e) : area[n] = Side(portalareas[e], 0)

\* The entries of dareaportals that belong to area i.
AreaSlice(i) ==
    SubSeq(dareaportals, dareas[i + 1].firstareaportal + 1,
           dareas[i + 1].firstareaportal + dareas[i + 1].numareaportals)

\* The entities that bound area i.
Bounding(i) ==
    {e \in 0..MaxEntities : areaportalnum[e] # 0
                             /\ i \in {Side(portalareas[e], 0), Side(portalareas[e], 1)}}

OppositeArea(e, i) ==
    IF Side(portalareas[e], 0) = i THEN Side(portalareas[e], 1) ELSE Side(portalareas[e], 0)

\* C7: after EmitAreaPortals dareas has c_areas + 1 entries and the slice of
\* every area i holds exactly one entry (areaportalnum, opposite area) for
\* each entity bounding i, and no other entry.
C7_AreaSlicesExact ==
    AfterEmitAreaPortals =>
        /\ Len(dareas) = c_areas + 1
        /\ \A i \in 1..c_areas :
              /\ dareas[i + 1].firstareaportal + dareas[i + 1].numareaportals <= Len(dareaportals)
              /\ Len(AreaSlice(i)) = Cardinality(Bounding(i))
              /\ \A e \in Bounding(i) :
                    Cardinality({k \in 1..Len(AreaSlice(i)) :
                        AreaSlice(i)[k] = [portalnum |-> areaportalnum[e],
                                           otherarea |-> OppositeArea(e, i)]}) = 1

C7_Witness ==
    /\ AfterEmitAreaPortals
    /\ c_areas >= 3
    /\ \E i \in 1..c_areas : Cardinality(Bounding(i)) = 2
    /\ \E i \in 1..c_areas : Cardinality(Bounding(i)) = 0
    /\ \E e \in Entities : Side(portalareas[e], 0) # 0 /\ Side(portalareas[e], 1) = 0


(***************************************************************************)
(* Properties of the portal builder.                                       *)
(***************************************************************************)
InternalNodes == {n \in DOMAIN nodes : n # outside_node /\ ~nodes[n].is_leaf}

SeqIds(list) == {list[k].id : k \in 1..Len(list)}
References(q, node) == Side(q.nodes, 0) = node \/ Side(q.nodes, 1) = node

\* The portals of list that SplitNodePortals(node) made from the input p:
\* p itself, or the portal allocated for the back fragment of p.
MadeFrom(list, p, node) ==
    {k \in 1..Len(list) : list[k].id = p.id \/ list[k].id = p.id \o <<node>>}

AfterMakeTreePortals == pc = "CalcTreeBounds" /\ fatal = ""

\* C8: every SplitNodePortals call returns a front and a back list with no
\* portal object in common; each returned portal comes from one input
\* portal and references children[0] (front list) or children[1] (back
\* list) on the side index where that input referenced node; no returned
\* portal references node; an input yields at most one portal per list.
C8_SplitListsDisjoint ==
    \A c \in 1..Len(splitcalls) :
        LET call == splitcalls[c]
            f == Side(nodes[call.node].children, 0)
            b == Side(nodes[call.node].children, 1)
            SideOf(p) == IF Side(p.nodes, 0) = call.node THEN 0 ELSE 1
            Relinked(list, child) ==
                \A k \in 1..Len(list) :
                    /\ ~References(list[k], call.node)
                    /\ \E i \in 1..Len(call.input) :
                          /\ k \in MadeFrom(list, call.input[i], call.node)
                          /\ Side(list[k].nodes, SideOf(call.input[i])) = child
        IN  /\ SeqIds(call.front) \cap SeqIds(call.back) = {}
            /\ Relinked(call.front, f)
            /\ Relinked(call.back, b)
            /\ \A i \in 1..Len(call.input) :
                  /\ Cardinality(MadeFrom(call.front, call.input[i], call.node)) <= 1
                  /\ Cardinality(MadeFrom(call.back, call.input[i], call.node)) <= 1

\* A call that cut a portal in two, with inputs that referenced the node on
\* side 0 and inputs that referenced it on side 1.
C8_Witness ==
    \E c \in 1..Len(splitcalls) :
        LET call == splitcalls[c] IN
        /\ Len(call.front) + Len(call.back) > Len(call.input)
        /\ \E i, j \in 1..Len(call.input) :
              /\ Side(call.input[i].nodes, 0) = call.node
              /\ Side(call.input[j].nodes, 1) = call.node

\* C9: after MakeTreePortals every portal of tree->portals has a leaf (or
\* the outside node) on both sides.
C9_FinalPortalsJoinLeafs ==
    AfterMakeTreePortals =>
        \A p \in 1..Len(portals) :
            /\ nodes[Side(portals[p].nodes, 0)].is_leaf
            /\ nodes[Side(portals[p].nodes, 1)].is_leaf

\* A finished run on a tree of three internal nodes with detail separators,
\* in which a node portal was pushed down to two leafs of the tree.
C9_Witness ==
    /\ AfterMakeTreePortals
    /\ Cardinality(InternalNodes) >= 3
    /\ \E n \in InternalNodes : nodes[n].detail_separator
    /\ \E p \in 1..Len(portals) :
          /\ portals[p].onnode = headnode
          /\ nodes[headnode].children # portals[p].nodes
          /\ Side(portals[p].nodes, 0) # outside_node
          /\ Side(portals[p].nodes, 1) # outside_node

Occurrences(list, p) == Cardinality({k \in 1..Len(list) : list[k] = p})

\* C10: after MakePortalsFromBuildportals every portal has two distinct
\* non-null nodes and is exactly once in the list of each; the walk of any
\* node's list ends and visits exactly the portals referencing the node.
C10_ListsWellFormed ==
    AfterMakeTreePortals =>
        /\ \A p \in 1..Len(portals) :
              /\ Side(portals[p].nodes, 0) # NULL
              /\ Side(portals[p].nodes, 1) # NULL
              /\ Side(portals[p].nodes, 0) # Side(portals[p].nodes, 1)
              /\ \A s \in {0, 1} :
                    Occurrences(NodeList(Side(portals[p].nodes, s)), p) = 1
        /\ \A n \in DOMAIN nodes :
              /\ Len(NodeList(n)) <= Len(portals)
              /\ {NodeList(n)[k] : k \in 1..Len(NodeList(n))}
                     = {p \in 1..Len(portals) : References(portals[p], n)}

\* A finished run in which the list of some leaf holds a portal that has the
\* leaf on side 0 followed by one that has it on side 1.
C10_Witness ==
    /\ AfterMakeTreePortals
    /\ Len(portals) > 6
    /\ \E n \in DOMAIN nodes \ {outside_node} :
          \E k \in 1..(Len(NodeList(n)) - 1) :
              /\ PortalSide(NodeList(n)[k], n) = 0
              /\ PortalSide(NodeList(n)[k + 1], n) = 1


\* A winding that exists and is tiny.
TinyWinding(w) == w # NoWinding /\ WindingIsTiny(w)

\* The number of tiny windings among the fragments that the plane cuts from
\* the portals of input.
RECURSIVE TinyFragments(_, _)
TinyFragments(plane, input) ==
    IF input = <<>> THEN 0
    ELSE LET cut == clip(Head(input).winding, plane, TRUE) IN
         (IF TinyWinding(cut[1]) THEN 1 ELSE 0)
             + (IF TinyWinding(cut[2]) THEN 1 ELSE 0)
             + TinyFragments(plane, Tail(input))

RECURSIVE TinyInCalls(_, _)
TinyInCalls(N, calls) ==
    IF calls = <<>> THEN 0
    ELSE TinyFragments(N[Head(calls).node].plane, Head(calls).input)
             + TinyInCalls(N, Tail(calls))

\* The tasks whose MakeNodePortal produced a tiny winding in this step.
TinyNodePortals ==
    {n \in DOMAIN mtp :
        /\ mtp[n].at = "make"
        /\ mtp'[n].at = "split"
        /\ TinyWinding(ClipByBoundary(BaseWindingForNode(nodes, n), n,
                                      mtp[n].boundary_portals).w)}

C11_TinyStep ==
    /\ pc = "MakeTreePortals" => c_tinyportals' = 0
    /\ (pc = "MakeTreePortals_r" /\ fatal' = "") =>
          /\ c_tinyportals' = c_tinyportals + Cardinality(TinyNodePortals)
                                  + TinyInCalls(nodes, splitcalls')
          /\ pc' = "CalcTreeBounds" =>
                \A p \in 1..Len(portals') : ~WindingIsTiny(portals'[p].winding)

\* C11: every winding that is tiny when MakeNodePortal or SplitNodePortals
\* produces it adds exactly one to stats.c_tinyportals in the step that
\* drops it, nothing else changes the count, and no portal of the final
\* collection has a tiny winding.
C11_TinyDroppedAndCounted == [][C11_TinyStep]_vars

\* A finished run that dropped the tiny winding of a node portal and a tiny
\* fragment of a split.
C11_Witness ==
    /\ AfterMakeTreePortals
    /\ \E n \in InternalNodes :
          /\ TinyWinding(BaseWindingForNode(nodes, n))
          /\ \A p \in 1..Len(portals) : portals[p].onnode # n
    /\ c_tinyportals > Cardinality(InternalNodes)

\* MakeTreePortals_r run on one thread, the front child before the back
\* child: [list, tiny, clock], the portals returned, the tiny windings
\* counted and the nodes counted.
RECURSIVE SequentialTreePortals_r(_, _, _)

SequentialMerge(front, back, made, split, onnode) ==
    [list |-> front.list \o back.list \o onnode.list,
     tiny |-> made.tiny + split.tiny + front.tiny + back.tiny + onnode.tiny,
     clock |-> 1 + front.clock + back.clock]

SequentialChildren(N, node, made, split) ==
    SequentialMerge(
        SequentialTreePortals_r(N, Side(N[node].children, 0), split.front),
        SequentialTreePortals_r(N, Side(N[node].children, 1), split.back),
        made, split,
        ClipNodePortal(N, node, "TREE",
                       IF made.portal = NoPortal THEN <<>> ELSE <<made.portal>>))

SequentialTreePortals_r(N, node, boundary_portals) ==
    IF StopsAt(N, node, "TREE")
    THEN [list |-> boundary_portals, tiny |-> 0, clock |-> 1]
    ELSE SequentialChildren(N, node, MakeNodePortal(N, node, boundary_portals),
                            SplitNodePortals(N, node, boundary_portals))

SequentialRun ==
    SequentialTreePortals_r(nodes, headnode, MakeHeadnodePortals(tree_bounds, headnode))

CountersAre(run) == c_tinyportals = run.tiny /\ clock = run.clock

\* C12: after MakeTreePortals_r the tiny-portal count and the processed-node
\* count are, under every interleaving of the child tasks, the counts of the
\* run that processes the front child before the back child on one thread.
C12_CountersDeterministic ==
    AfterMakeTreePortals => CountersAre(SequentialRun)

SiblingsBothCount(split) ==
    /\ SequentialTreePortals_r(nodes, Side(nodes[headnode].children, 0), split.front).tiny > 0
    /\ SequentialTreePortals_r(nodes, Side(nodes[headnode].children, 1), split.back).tiny > 0

\* A finished run whose two child tasks of the head node both counted tiny
\* windings and nodes.
C12_Witness ==
    /\ AfterMakeTreePortals
    /\ ~nodes[headnode].is_leaf
    /\ SiblingsBothCount(SplitNodePortals(nodes, headnode,
                                          MakeHeadnodePortals(tree_bounds, headnode)))

\* The build-portals a task holds: its boundary list, its node portal and
\* the list it returns.
Held(task) == SeqIds(task.boundary_portals) \cup SeqIds(task.nodeportal)
                  \cup SeqIds(task.result)

\* A task between its start and its g.wait() or return.
IsRunning(task) == task.at \in {"enter", "make", "split"}

\* The portals no task holds: a portal with such an id is allocated by the
\* step that makes it appear.
HeldByAny == UNION {Held(mtp[a]) : a \in DOMAIN mtp}

C13_TaskStep ==
    (pc = "MakeTreePortals_r" /\ pc' = "MakeTreePortals_r") =>
        /\ nodes' = nodes
        /\ \A a, b \in DOMAIN mtp :
              a # b => Held(mtp'[a]) \cap Held(mtp'[b]) = {}
        /\ \A a \in DOMAIN mtp :
              IsRunning(mtp[a]) =>
                  /\ \A q \in Held(mtp'[a]) : q \in Held(mtp[a]) \/ q \notin HeldByAny
                  /\ mtp'[a] # mtp[a] =>
                        \A b \in DOMAIN mtp \ {a} :
                            mtp'[b] # mtp[b] =>
                                /\ nodes[b].parent = a
                                /\ mtp[b].at = "idle"
                                /\ \A q \in Held(mtp'[b]) :
                                      q \in Held(mtp[a]) \/ q \notin HeldByAny

\* C13: while tasks of MakeTreePortals_r run concurrently no build-portal
\* is held by two of them; a step of a running task changes only that task
\* and the children it starts, every portal it ends with or hands to a child
\* was in its own lists or is allocated by the step, and no step writes a
\* tree node.
C13_TasksShareNoPortal == [][C13_TaskStep]_vars

\* Two sibling tasks in the middle of their work: one has split its list,
\* allocating a portal, and started its children, the other holds its list
\* and its node portal.
C13_Witness ==
    \E a, b \in DOMAIN mtp :
        /\ a # b
        /\ nodes[a].parent = nodes[b].parent
        /\ mtp[a].at = "split"
        /\ mtp[a].nodeportal # <<>>
        /\ mtp[a].boundary_portals # <<>>
        /\ mtp[b].at = "wait"
        /\ \E c \in DOMAIN mtp :
              /\ nodes[c].parent = b
              /\ IsRunning(mtp[c])
              /\ \E q \in Held(mtp[c]) : Len(q) > 2

\* The padded box of MakeHeadnodePortals has a positive extent on each axis.
PaddedBoxHasVolume ==
    \A k \in 1..3 : tree_bounds.mins[k] - SIDESPACE < tree_bounds.maxs[k] + SIDESPACE

AfterMakeHeadnodePortals == pc = "MakeTreePortals_r" /\ mtp[headnode].at = "enter"

\* C14: MakeHeadnodePortals returns six portals, each between the head node
\* and the outside node, with the outside node a solid leaf without
\* portals, exactly when no winding is clipped away; otherwise the run stops
\* with the fatal error and no portal list is returned.
C14_SixPortalsOrFatal ==
    /\ AfterMakeHeadnodePortals =>
          /\ fatal = ""
          /\ PaddedBoxHasVolume
          /\ Len(mtp[headnode].boundary_portals) = 6
          /\ \A k \in 1..6 :
                /\ mtp[headnode].boundary_portals[k].nodes
                       \in {<<outside_node, headnode>>, <<headnode, outside_node>>}
                /\ mtp[headnode].boundary_portals[k].winding # NoWinding
          /\ Cardinality(SeqIds(mtp[headnode].boundary_portals)) = 6
          /\ nodes[outside_node].is_leaf
          /\ is_any_solid(nodes[outside_node].contents)
          /\ nodeportals[outside_node] = 0
    /\ pc \in {"MakeTreePortals_r", "CalcTreeBounds"} => PaddedBoxHasVolume
    /\ fatal = "portal winding clipped away" =>
          /\ pc = "MakeTreePortals"
          /\ ~PaddedBoxHasVolume
          /\ \A n \in DOMAIN mtp : mtp[n] = IdleTask
          /\ nodes[outside_node].is_leaf
    /\ (pc = "MakeTreePortals" /\ nodes[outside_node].is_leaf /\ ~PaddedBoxHasVolume) =>
          fatal = "portal winding clipped away"

\* The run stopped by the fatal error of a winding clipped away.
C14_Witness ==
    /\ fatal = "portal winding clipped away"
    /\ tree_bounds = FlatBounds
    /\ nodes[outside_node].is_leaf

MislinkedError == "CutNodePortals_r: mislinked portal"

HasMislinked(list, node) == \E k \in 1..Len(list) : ~References(list[k], node)

\* A step of the task of an internal node whose boundary list holds a
\* portal that references the node on neither side.
C15_MislinkedStep ==
    \A n \in DOMAIN mtp :
        (/\ mtp[n].at \in {"enter", "make", "split"}
         /\ ~StopsAt(nodes, n, "TREE")
         /\ HasMislinked(mtp[n].boundary_portals, n)
         /\ <<mtp[n], fatal>>' # <<mtp[n], fatal>>) =>
            /\ \A c \in DOMAIN mtp : nodes[c].parent = n => mtp'[c] = IdleTask
            /\ mtp'[n].boundary_portals = mtp[n].boundary_portals
            /\ mtp[n].at = "enter" => (mtp'[n].at = "make" /\ fatal' = "")
            /\ mtp[n].at = "make" =>
                  \/ fatal' = MislinkedError
                  \/ mtp'[n].at = "split" /\ mtp'[n].nodeportal = <<>> /\ fatal' = ""
            /\ mtp[n].at = "split" => fatal' = MislinkedError

\* C15: a task of MakeTreePortals_r on an internal node whose boundary list
\* holds a portal referencing the node on neither side ends in the fatal
\* error of a mislinked portal and never starts a child task: MakeNodePortal
\* stops with the error, or returns no portal because the winding was
\* clipped away first, and then SplitNodePortals stops with the error.
C15_MislinkedIsFatal == [][C15_MislinkedStep]_vars

\* The fatal error raised by SplitNodePortals after MakeNodePortal returned
\* without it, the winding of the node being clipped away by the portals
\* before the mislinked one.
C15_Witness ==
    /\ fatal = MislinkedError
    /\ mtp[headnode].at = "split"
    /\ HasMislinked(mtp[headnode].boundary_portals, headnode)
    /\ \A n \in DOMAIN mtp \ {headnode} : mtp[n] = IdleTask

(***************************************************************************)
(* Properties of the bounds pass.                                          *)
(***************************************************************************)
\* The box CalcTreeBounds_r computes for the node at line 405 or 415.
ComputedBox(n) ==
    IF nodes[n].is_leaf THEN CalcNodeBounds(n)
    ELSE aabb_union(node_bounds[Side(nodes[n].children, 0)],
                    node_bounds[Side(nodes[n].children, 1)])

VolumeWarning(n) == [w |-> "without a volume", e |-> NULL, a |-> n]

\* The step that ends the call on n, which computed box.
C16_Checked(n, box) ==
    /\ fatal' = ""
    /\ ctb'[n] = "done"
    /\ WithoutVolume(box) =>
          /\ nodes[n].parent # NULL
          /\ node_bounds'[n] = [mins |-> node_bounds[nodes[n].parent].mins,
                                maxs |-> node_bounds[nodes[n].parent].mins]
          /\ Len(log') > Len(log)
          /\ log'[Len(log) + 1] = VolumeWarning(n)
    /\ ~WithoutVolume(box) =>
          /\ node_bounds'[n] = box
          /\ \A k \in (Len(log) + 1)..Len(log') : log'[k] # VolumeWarning(n)

C16_BoundsStep ==
    \A n \in DOMAIN ctb :
        (/\ pc = "CalcTreeBounds"
         /\ ctb[n] = "wait" \/ (ctb[n] = "enter" /\ nodes[n].is_leaf)
         /\ <<ctb[n], fatal>>' # <<ctb[n], fatal>>) => C16_Checked(n, ComputedBox(n))

RECURSIVE AncestorsOf(_)
AncestorsOf(n) ==
    IF nodes[n].parent = NULL THEN {}
    ELSE {nodes[n].parent} \cup AncestorsOf(nodes[n].parent)

\* A call that has started and not returned; it writes the bounds of its
\* node before it returns.
Active(n) == ctb[n] \in {"enter", "wait"}

\* The bounds fields the step that ends the call on n reads: those of the
\* children at line 415, those of the parent at line 420.
BoundsRead(n) ==
    (IF nodes[n].is_leaf THEN {}
     ELSE {Side(nodes[n].children, 0), Side(nodes[n].children, 1)})
        \cup (IF WithoutVolume(ComputedBox(n)) THEN {nodes[n].parent} ELSE {})

\* node->bounds as the single-threaded pass leaves it, the bounds of every
\* node being tree_bounds before the pass.
RECURSIVE SequentialBounds(_)

SequentialChecked(n, box) ==
    IF WithoutVolume(box) /\ nodes[n].parent # NULL
    THEN [mins |-> tree_bounds.mins, maxs |-> tree_bounds.mins]
    ELSE box

SequentialBounds(n) ==
    SequentialChecked(n,
        IF nodes[n].is_leaf THEN CalcNodeBounds(n)
        ELSE aabb_union(SequentialBounds(Side(nodes[n].children, 0)),
                        SequentialBounds(Side(nodes[n].children, 1))))

C17_BoundsTaskStep ==
    pc = "CalcTreeBounds" =>
        \A n \in DOMAIN ctb :
            (ctb[n] # "done" /\ ctb'[n] = "done") =>
                /\ \A m \in DOMAIN node_bounds : node_bounds'[m] # node_bounds[m] => m = n
                /\ \A m \in DOMAIN ctb \ {n} :
                      Active(m) => (m \notin BoundsRead(n) \/ m \in AncestorsOf(n))
                /\ ~nodes[n].is_leaf =>
                      /\ ctb[Side(nodes[n].children, 0)] = "done"
                      /\ ctb[Side(nodes[n].children, 1)] = "done"
                /\ n = headnode =>
                      \A m \in DOMAIN ctb : node_bounds'[m] = SequentialBounds(m)

\* C17: the step that ends a call of CalcTreeBounds_r writes the bounds of
\* its own node only and reads no bounds that a call running beside it has
\* yet to write: the children it reads have returned, and the parent it
\* reads is waiting for it; when the head node's call ends, every node has
\* the bounds of the single-threaded pass, whatever the interleaving.
C17_BoundsTasksIndependent == [][C17_BoundsTaskStep]_vars

\* Two sibling calls side by side: one has returned, the other waits for
\* its own children, of which one has returned and one has not started.
C17_Witness ==
    \E a, b \in DOMAIN ctb :
        /\ a # b
        /\ nodes[a].parent = nodes[b].parent
        /\ ctb[a] = "done"
        /\ ctb[b] = "wait"
        /\ ctb[Side(nodes[b].children, 0)] = "enter"
        /\ ctb[Side(nodes[b].children, 1)] = "done"

(***************************************************************************)
(* Properties of the order of the steps of MakeTreePortals_r.              *)
(***************************************************************************)
\* The nodes of the subtree of n.
SubtreeOf(n) == {m \in DOMAIN nodes \ {outside_node} : m = n \/ n \in AncestorsOf(m)}

\* The positions a call of MakeTreePortals_r on an internal node goes
\* through, in order.
MTP_Order ==
    { <<"idle", "enter">>, <<"enter", "make">>, <<"make", "split">>,
      <<"split", "wait">>, <<"wait", "done">>, <<"done", "idle">> }

\* The part of the list a call returned that follows the results of its
\* two tasks.
OnNodePart(n, result) ==
    SubSeq(result,
           Len(mtp[Side(nodes[n].children, 0)].result)
               + Len(mtp[Side(nodes[n].children, 1)].result) + 1,
           Len(result))

C26_OrderStep ==
    (pc = "MakeTreePortals_r" /\ pc' = "MakeTreePortals_r") =>
        \A n \in InternalNodes :
            LET front == Side(nodes[n].children, 0)
                back == Side(nodes[n].children, 1)
            IN  /\ mtp'[n].at # mtp[n].at => <<mtp[n].at, mtp'[n].at>> \in MTP_Order
                /\ (mtp[n].at = "make" /\ mtp'[n].at = "split") =>
                      /\ mtp'[n].boundary_portals = mtp[n].boundary_portals
                      /\ mtp[front].at = "idle" /\ mtp'[front].at = "idle"
                      /\ mtp[back].at = "idle" /\ mtp'[back].at = "idle"
                      /\ \A k \in 1..Len(mtp'[n].nodeportal) :
                            /\ mtp'[n].nodeportal[k].onnode = n
                            /\ mtp'[n].nodeportal[k].nodes = nodes[n].children
                /\ (mtp[n].at = "split" /\ mtp'[n].at = "wait") =>
                      /\ mtp'[n].nodeportal = mtp[n].nodeportal
                      /\ mtp'[n].boundary_portals = <<>>
                      /\ mtp'[front].at = "enter"
                      /\ mtp'[back].at = "enter"
                      /\ SeqIds(mtp'[front].boundary_portals)
                             \cup SeqIds(mtp'[back].boundary_portals)
                           \subseteq
                             SeqIds(mtp[n].boundary_portals)
                                 \cup {q \o <<n>> : q \in SeqIds(mtp[n].boundary_portals)}
                /\ \A child \in {front, back} :
                      (mtp[child].at = "idle" /\ mtp'[child].at # "idle") =>
                          mtp[n].at = "split"
                /\ (mtp[n].at = "wait" /\ mtp'[n].at = "wait") =>
                      mtp'[n].nodeportal = mtp[n].nodeportal
                /\ (mtp[n].at = "wait" /\ mtp'[n].at = "done") =>
                      /\ mtp[front].at = "done"
                      /\ mtp[back].at = "done"
                      /\ mtp'[n].result =
                             mtp[front].result \o mtp[back].result
                                 \o OnNodePart(n, mtp'[n].result)
                      /\ \A k \in 1..Len(OnNodePart(n, mtp'[n].result)) :
                            OnNodePart(n, mtp'[n].result)[k].onnode = n
                      /\ mtp[n].nodeportal = <<>> => OnNodePart(n, mtp'[n].result) = <<>>
                      /\ Cardinality(SeqIds(mtp'[n].result)) = Len(mtp'[n].result)
                      /\ \A i, j \in 1..Len(splitcalls') :
                            (/\ splitcalls'[i].node \in SubtreeOf(back)
                             /\ splitcalls'[j].node \in SubtreeOf(front)) => j < i

\* C26: a call of MakeTreePortals_r on an internal node goes through its
\* steps in order: the node portal is made while the boundary list is whole
\* and no task has started, then the list is split and both tasks start,
\* the node portal is left alone while the call waits, and only when both
\* tasks have returned is it pushed down children[0] and then children[1];
\* the list returned is the result of the front task, that of the back task
\* and the fragments of the node portal, and holds no portal twice.
C26_StepsInOrder == [][C26_OrderStep]_vars

\* A call on a node with two internal children has returned: its node
\* portal went down children[0] and then down children[1], two fragments of
\* it are in the list returned, and so is a node portal made by a task.
C26_Witness ==
    /\ pc = "MakeTreePortals_r"
    /\ fatal = ""
    /\ \E n \in InternalNodes :
          /\ mtp[n].at = "done"
          /\ \E i, j \in 1..Len(splitcalls) :
                /\ splitcalls[i].node \in SubtreeOf(Side(nodes[n].children, 0))
                /\ splitcalls[j].node \in SubtreeOf(Side(nodes[n].children, 1))
          /\ Cardinality({k \in 1..Len(mtp[n].result) : mtp[n].result[k].onnode = n}) >= 2
          /\ \E k \in 1..Len(mtp[n].result) :
                mtp[n].result[k].onnode \in SubtreeOf(Side(nodes[n].children, 0))
                                               \cup SubtreeOf(Side(nodes[n].children, 1))

(***************************************************************************)
(* Properties of ClipNodePortalsToTree_r.                                  *)
(***************************************************************************)
IsPrefix(a, b) == Len(a) <= Len(b) /\ SubSeq(b, 1, Len(a)) = a

\* The portal of input that the fragment q was cut from: q itself, or the
\* portal whose cuts allocated q.
OriginOf(input, q) ==
    CHOOSE i \in 1..Len(input) :
        /\ IsPrefix(input[i].id, q.id)
        /\ \A j \in 1..Len(input) :
              IsPrefix(input[j].id, q.id) => Len(input[j].id) <= Len(input[i].id)

\* What a call ClipNodePortalsToTree_r(node, type, input) that returned
\* output left of each portal.
ClipFrame(node, type, input, output) ==
    \A k \in 1..Len(output) :
        /\ \E i \in 1..Len(input) : IsPrefix(input[i].id, output[k].id)
        /\ LET p == input[OriginOf(input, output[k])]
               s == SideOfNode(p, node)
           IN  /\ Side(output[k].nodes, Other(s)) = Side(p.nodes, Other(s))
               /\ output[k].plane = p.plane
               /\ output[k].onnode = p.onnode
               /\ Side(output[k].nodes, s) \in SubtreeOf(node)
               /\ StopsAt(nodes, Side(output[k].nodes, s), type)
               /\ type = "TREE" => nodes[Side(output[k].nodes, s)].is_leaf

\* The two calls of lines 500 and 502 for the node portal of n.
HalfClipped(n, type) ==
    ClipNodePortalsToTree_r(nodes, Side(nodes[n].children, 0), type, mtp[n].nodeportal)
FullyClipped(n, type) ==
    ClipNodePortalsToTree_r(nodes, Side(nodes[n].children, 1), type,
                            HalfClipped(n, type).list)

C27_ClipStep ==
    \A n \in InternalNodes :
        (/\ pc = "MakeTreePortals_r"
         /\ mtp[n].at = "wait"
         /\ mtp'[n].at = "done"
         /\ fatal' = "") =>
            /\ OnNodePart(n, mtp'[n].result) = FullyClipped(n, "TREE").list
            /\ \A type \in {"TREE", "VIS"} :
                  /\ ClipFrame(Side(nodes[n].children, 0), type,
                               mtp[n].nodeportal, HalfClipped(n, type).list)
                  /\ ClipFrame(Side(nodes[n].children, 1), type,
                               HalfClipped(n, type).list, FullyClipped(n, type).list)

\* C27: every fragment ClipNodePortalsToTree_r(node, portals) returns has,
\* on the side where the portal it was cut from had node, a node of node's
\* subtree at which the descent stops (a leaf in TREE mode), and has on the
\* other side the node that portal had there, with its plane and onnode.
C27_ClipFrame == [][C27_ClipStep]_vars

\* A call that returned after the push of its node portal: the second call
\* of ClipNodePortalsToTree_r got two portals with the node on side 1 and a
\* leaf of the other child on side 0, and cut one of them in two.
C27_Witness ==
    /\ pc = "MakeTreePortals_r"
    /\ fatal = ""
    /\ \E n \in InternalNodes :
          /\ mtp[n].at = "done"
          /\ \E c \in 1..Len(splitcalls) :
                LET call == splitcalls[c] IN
                /\ call.node = Side(nodes[n].children, 1)
                /\ Len(call.input) = 2
                /\ \A i \in 1..2 :
                      /\ Side(call.input[i].nodes, 1) = call.node
                      /\ nodes[Side(call.input[i].nodes, 0)].is_leaf
                      /\ call.input[i].onnode = n
                /\ Len(call.front) + Len(call.back) = 3

(***************************************************************************)
(* Properties of entdict_t::parse.                                         *)
(***************************************************************************)
\* The string without the whitespace at its start, and without that at its
\* end.
RECURSIVE TrimLeft(_)
TrimLeft(str) ==
    IF str # <<>> /\ isspace(Head(str)) THEN TrimLeft(Tail(str)) ELSE str

RECURSIVE TrimRight(_)
TrimRight(str) ==
    IF str # <<>> /\ isspace(str[Len(str)])
    THEN TrimRight(SubSeq(str, 1, Len(str) - 1))
    ELSE str

\* The token has a character that is no whitespace.
HasText(str) == \E k \in 1..Len(str) : ~isspace(str[k])

\* C28: for every key token that has a character other than whitespace,
\* the key parse stores is the token without the whitespace at its start
\* and at its end, and the two loops end without keystr ever being empty
\* when front() or back() is read.
C28_KeysTrimmed ==
    /\ \A c \in 1..Len(dictcalls) :
          (dictcalls[c][1] = "parse" /\ HasText(dictcalls[c][2])) =>
              dictcalls[c][3] = TrimRight(TrimLeft(dictcalls[c][2]))
    /\ (pc \in {"trim_start", "trim_end"} /\ HasText(token[1])) => keystr # <<>>
    /\ (token # <<>> /\ HasText(token[1])) => fatal = ""

(***************************************************************************)
(* Properties of entdict_t::set, remove and rename.                        *)
(***************************************************************************)
\* The positions of kv that hold key.
EntriesFor(kv, key) == {k \in 1..Len(kv) : kv[k][1] = key}

NoKeyTwice(kv) == \A key \in DictKeys : Cardinality(EntriesFor(kv, key)) <= 1

C30_DictStep ==
    dictcalls' # dictcalls =>
        LET call == dictcalls'[Len(dictcalls')] IN
        /\ NoKeyTwice(keyvalues')
        /\ call[1] = "set" =>
              /\ get(keyvalues', call[2]) = call[3]
              /\ EntriesFor(keyvalues, call[2]) # {} =>
                    /\ Len(keyvalues') = Len(keyvalues)
                    /\ EntriesFor(keyvalues', call[2]) = EntriesFor(keyvalues, call[2])
        /\ (call[1] = "rename" /\ EntriesFor(keyvalues, call[2]) # {}) =>
              /\ Cardinality(EntriesFor(keyvalues', call[3])) = 1
              /\ get(keyvalues', call[3]) = get(keyvalues, call[2])

\* C30: after every call of set, remove or rename on an entdict_t that
\* started empty, no key is twice in keyvalues; after set(key, value)
\* get(key) is value, and a key that was there keeps its position; after
\* rename(from, to) of a key that was there, keyvalues has one entry for
\* 'to', and get(to) is the value 'from' had.
C30_KeysUnique == [][C30_DictStep]_vars

(***************************************************************************)
(* Properties of mapentity_t::portalareas during FindAreas.                *)
(***************************************************************************)
C29_PortalAreasStep ==
    pc = "FindAreas" =>
        \A e \in DOMAIN portalareas :
            /\ Side(portalareas[e], 1) # 0 =>
                  /\ Side(portalareas[e], 0) # 0
                  /\ Side(portalareas[e], 0) # Side(portalareas[e], 1)
            /\ \A s \in {0, 1} :
                  /\ Side(portalareas[e], s) <= c_areas
                  /\ Side(portalareas'[e], s) <= c_areas'
                  /\ Side(portalareas[e], s) # 0 =>
                        Side(portalareas'[e], s) = Side(portalareas[e], s)

\* C29: at every step of FindAreas and of the floods it starts, an entity
\* whose portalareas[1] is set has portalareas[0] set to another area, no
\* slot exceeds map.c_areas, and a slot that is set keeps its value.
C29_PortalAreasStable == [][C29_PortalAreasStep]_vars

\* FindAreas goes on after a third area reached an entity whose two slots
\* hold the two areas that touched it first.
C29_Witness ==
    /\ pc = "FindAreas"
    /\ fatal = ""
    /\ \E e \in DOMAIN portalareas :
          /\ Side(portalareas[e], 0) # 0
          /\ Side(portalareas[e], 1) # 0
          /\ c_areas > Side(portalareas[e], 1)
          /\ \E k \in 1..Len(log) :
                log[k].w = "touches > 2 areas" /\ log[k].e = e /\ log[k].a = c_areas
====
